---- MODULE Spec2Model ----
(***************************************************************************)
(* trainpal: the time-window task scheduler (internal/scheduler, kept in   *)
(* src/main.go) and the two notification-deduplication state machines      *)
(* (internal/monitor/train.go, internal/monitor/tube.go).                  *)
(*                                                                         *)
(* Time is counted in whole minutes since 00:00 of day 0.  Every task time *)
(* is built by time.Date(..., h, m, 0, 0, ...) plus whole minutes, so for  *)
(* a clock reading x the test 0 <= x - T < 2min holds exactly when the     *)
(* minute floor of x is T or T+1: the minute floor of the clock is all the *)
(* scheduler ever depends on.                                              *)
(*                                                                         *)
(* Time-of-day strings ("0735") are sequences of characters, a digit being *)
(* its value 0..9 and ':' being Colon.                                     *)
(***************************************************************************)
EXTENDS Integers, Sequences, FiniteSets, TLC

VARIABLES
    \* internal/monitor/train.go  TrainMonitor
    notifiedDelays,     \* map[string]int   service uid -> highest notified bucket
    notifiedCancels,    \* map[string]bool  service uid -> cancellation notified
    \* internal/monitor/tube.go   TubeMonitor
    lastStatus,         \* string
    lastStatusReason,   \* string
    \* scheduler (src/main.go)
    cfg,                \* *config.Config, read-only
    tasks,              \* []Task
    currentDay,         \* int, day of month the task list was built for
    phase,              \* "new" (constructed), "running" (run loop started)
    now,                \* minute floor of the clock at the last operation
    \* observation of the run (not program state)
    last,               \* name of the last operation
    log,                \* one entry per monitor check made by the last operation, in order
    lineSeen,           \* the last line status observed since the reset, or NoLine
    gatedMark,          \* uid -> bucket of the last gated delay notification since the reset
    cancelSeen,         \* uids observed as cancelled since the reset
    cancelSent,         \* uid -> cancellation notifications sent since the reset
    runs,               \* per task of the list: executions since the rebuild
    arrivalSent,        \* journey -> arrival notifications sent since the rebuild
    yesterday,          \* what had been notified when the last day rollover reset it
    failed,             \* a check run by a tick has returned an error since the start
    dayChanged,         \* the last operation was a tick that found the day changed
    undelivered,        \* notifications the notifier failed to deliver since the reset
    \* concurrent callers of the monitors
    mu,                 \* sync.Mutex of each monitor: the caller holding it, or 0
    proc,               \* per caller: the call it is in, its position and its locals
    decided,            \* notify decisions taken, per journey bucket, cancellation, line status
    \* lifecycle of the scheduler (src/main.go)
    ctxDone,            \* the run context has been cancelled
    stopCh,             \* "open" or "closed"
    stopReturned        \* Stop has returned

vars == <<notifiedDelays, notifiedCancels, lastStatus, lastStatusReason, cfg, tasks,
          currentDay, phase, now, last, log, lineSeen, gatedMark, cancelSeen,
          cancelSent, runs, arrivalSent, yesterday, failed, dayChanged,
          undelivered, mu, proc, decided, ctxDone, stopCh, stopReturned>>

monVars == <<notifiedDelays, notifiedCancels, lastStatus, lastStatusReason>>
schedVars == <<cfg, tasks, currentDay, phase, now>>
tickVars == <<failed, dayChanged>>
concVars == <<mu, proc, decided>>
lifeVars == <<ctxDone, stopCh, stopReturned>>

----------------------------------------------------------------------------
(* Bounds of the model                                                     *)

MaxDelaySteps == 7      \* realtime departures run up to MaxDelaySteps * 3 minutes late
MaxRuns == 2            \* the execution counters saturate here
MaxStep == 3            \* a tick comes at most MaxStep minutes after the one before
Horizon == 25           \* minutes of clock followed after each start time

\* The service uids the journey source may return.
UIDs == {1, 2}
Delays == {3 * k : k \in 0..MaxDelaySteps}

----------------------------------------------------------------------------
(* Strings of time-of-day characters                                       *)

Colon == 10

HHMM(mins) ==
    LET h == (mins \div 60) % 24
        m == mins % 60
    IN  <<h \div 10, h % 10, m \div 10, m % 10>>

HasPrefix(s, prefix) ==
    /\ Len(prefix) <= Len(s)
    /\ SubSeq(s, 1, Len(prefix)) = prefix

ParseError == -1

\* time.Parse("1504", s): exactly four digits, hour 00..23, minute 00..59.
\* The result is the minute of the day.
timeParse1504(s) ==
    IF Len(s) # 4 \/ (\E i \in 1..Len(s) : s[i] = Colon) THEN ParseError
    ELSE LET h == s[1] * 10 + s[2]
             m == s[3] * 10 + s[4]
         IN  IF h > 23 \/ m > 59 THEN ParseError ELSE h * 60 + m

\* The minute at which the day of clock reading t began.
DayStart(t) == (t \div (24 * 60)) * (24 * 60)

parseTimeToday(timeStr, clock) ==
    LET t == timeParse1504(timeStr)
    IN  IF t = ParseError THEN ParseError ELSE DayStart(clock) + t

\* time.Date(0, 1, 1, h, m, ...) normalises h*60+m minutes after day start.
parseHHMM(str) ==
    LET s == SelectSeq(str, LAMBDA c : c # Colon)
    IN  IF Len(s) < 4 THEN ParseError
        ELSE (s[1] * 10 + s[2]) * 60 + (s[3] * 10 + s[4])

\* The delay with a negative difference read as a departure on the next day.
calculateDelayWrapping(scheduled, actual) ==
    LET schedTime == parseHHMM(scheduled)
        actualTime == parseHHMM(actual)
    IN  IF schedTime = ParseError THEN 0
        ELSE IF actualTime = ParseError THEN 0
        ELSE IF actualTime - schedTime < 0 THEN actualTime - schedTime + 1440
        ELSE actualTime - schedTime

calculateDelay(scheduled, actual) ==
    LET schedTime == parseHHMM(scheduled)
        actualTime == parseHHMM(actual)
    IN  IF schedTime = ParseError THEN 0
        ELSE IF actualTime = ParseError THEN 0
        ELSE IF actualTime - schedTime < 0 THEN 0
        ELSE actualTime - schedTime

----------------------------------------------------------------------------
(* Go maps: a missing key reads as the zero value                          *)

EmptyMap == [k \in {} |-> 0]

MapGet(m, k, zero) == IF k \in DOMAIN m THEN m[k] ELSE zero

MapPut(m, k, v) == [x \in (DOMAIN m) \cup {k} |-> IF x = k THEN v ELSE m[x]]

----------------------------------------------------------------------------
(* The monitors' state as one record, and the result of one check          *)

Mon(nd, nc, ls, lr) ==
    [notifiedDelays |-> nd, notifiedCancels |-> nc,
     lastStatus |-> ls, lastStatusReason |-> lr]

NewTrainMonitor == [notifiedDelays |-> EmptyMap, notifiedCancels |-> EmptyMap]

NewTubeMonitor == [lastStatus |-> "", lastStatusReason |-> ""]

NoLine == [sev |-> -1, desc |-> "", reason |-> ""]

\* What one check observed and did: seen is the observation, note the kind of
\* notification handed to the notifier ("none" when nothing was sent), ok
\* whether the notifier delivered it, err whether the check returned an error.
Outcome(seen, uid, delay, line, note, text, ok) ==
    [seen |-> seen, uid |-> uid, delay |-> delay, line |-> line,
     note |-> note, text |-> text, ok |-> ok, err |-> ~ok]

Quiet(seen, uid, delay, line) ==
    Outcome(seen, uid, delay, line, "none", "", TRUE)

Failed(seen) ==
    [Quiet(seen, 0, 0, NoLine) EXCEPT !.err = TRUE]

Result(m, e, arrived) == [mon |-> m, e |-> e, arrived |-> arrived]

\* A fetch failure that also empties what the monitors remember.
fetchFailedForgetting(m) ==
    Result(Mon(EmptyMap, EmptyMap, "", ""), Failed("fetch_error"), FALSE)

\* The error return after a failed fetch (train.go 114-117, 325-328,
\* 339-342; tube.go 39-42): nothing sent, nothing written.
fetchFailed(m) == Result(m, Failed("fetch_error"), FALSE)

----------------------------------------------------------------------------
(* internal/monitor/train.go                                               *)

Cancelled(svc) == svc.DisplayAs = "CANCELLED_CALL" \/ svc.DisplayAs = "CANCELLED"

\* Index of the first service whose booked departure starts with targetTime,
\* 0 for nil.
\* The match made on equal strings alone.
findMatchingServiceExact(services, targetTime) ==
    LET hits == {i \in 1..Len(services) :
                    services[i].GbttBookedDeparture = targetTime}
    IN  IF hits = {} THEN 0 ELSE CHOOSE i \in hits : \A j \in hits : i <= j

findMatchingService(services, targetTime) ==
    LET hits == {i \in 1..Len(services) :
                    \/ services[i].GbttBookedDeparture = targetTime
                    \/ HasPrefix(services[i].GbttBookedDeparture, targetTime)}
    IN  IF hits = {} THEN 0 ELSE CHOOSE i \in hits : \A j \in hits : i <= j

\* handleCancellation without the write of train.go 233.
handleCancellationUnlatched(m, svc, dlv) ==
    LET alreadyNotified == MapGet(m.notifiedCancels, svc.ServiceUid, FALSE)
        reason == IF svc.CancelReasonShortText = "" THEN "No reason provided"
                  ELSE svc.CancelReasonShortText
    IN  IF alreadyNotified
        THEN Result(m, Quiet("cancelled", svc.ServiceUid, 0, NoLine), FALSE)
        ELSE Result(m, Outcome("cancelled", svc.ServiceUid, 0, NoLine,
                               "TrainCancellation", reason, dlv), FALSE)

handleCancellation(m, svc, dlv) ==
    LET alreadyNotified == MapGet(m.notifiedCancels, svc.ServiceUid, FALSE)
        m2 == IF ~alreadyNotified
              THEN [m EXCEPT !.notifiedCancels = MapPut(@, svc.ServiceUid, TRUE)]
              ELSE m
        reason == IF svc.CancelReasonShortText = "" THEN "No reason provided"
                  ELSE svc.CancelReasonShortText
    IN  IF alreadyNotified
        THEN Result(m2, Quiet("cancelled", svc.ServiceUid, 0, NoLine), FALSE)
        ELSE Result(m2, Outcome("cancelled", svc.ServiceUid, 0, NoLine,
                                "TrainCancellation", reason, dlv), FALSE)

\* The band rounded up instead of down.
DelayBucketRoundedUp(delayMins) == ((delayMins + 4) \div 5) * 5

DelayBucket(delayMins) == (delayMins \div 5) * 5

\* The comparison of train.go 259 with >= for >.
ShouldNotifyOnEqual(delayBucket, lastBucket) == delayBucket >= lastBucket

ShouldNotify(delayBucket, lastBucket) == delayBucket > lastBucket

\* handleDelay raising the mark only once the notifier has delivered.
handleDelayMarkingOnDelivery(m, svc, delayMins, dlv) ==
    LET delayBucket == DelayBucket(delayMins)
        lastBucket == MapGet(m.notifiedDelays, svc.ServiceUid, 0)
        shouldNotify == ShouldNotify(delayBucket, lastBucket)
        m2 == IF shouldNotify /\ dlv
              THEN [m EXCEPT !.notifiedDelays = MapPut(@, svc.ServiceUid, delayBucket)]
              ELSE m
        platform == IF svc.Platform = "" THEN "TBC" ELSE svc.Platform
    IN  IF ~shouldNotify
        THEN Result(m2, Quiet("delayed", svc.ServiceUid, delayMins, NoLine), FALSE)
        ELSE Result(m2, Outcome("delayed", svc.ServiceUid, delayMins, NoLine,
                                "TrainDelay", platform, dlv), FALSE)

\* handleDelay reading a service without a mark as below every bucket.
handleDelayUnmarkedBelowAll(m, svc, delayMins, dlv) ==
    LET delayBucket == DelayBucket(delayMins)
        lastBucket == MapGet(m.notifiedDelays, svc.ServiceUid, -1)
        shouldNotify == ShouldNotify(delayBucket, lastBucket)
        m2 == IF shouldNotify
              THEN [m EXCEPT !.notifiedDelays = MapPut(@, svc.ServiceUid, delayBucket)]
              ELSE m
        platform == IF svc.Platform = "" THEN "TBC" ELSE svc.Platform
    IN  IF ~shouldNotify
        THEN Result(m2, Quiet("delayed", svc.ServiceUid, delayMins, NoLine), FALSE)
        ELSE Result(m2, Outcome("delayed", svc.ServiceUid, delayMins, NoLine,
                                "TrainDelay", platform, dlv), FALSE)

handleDelay(m, svc, delayMins, dlv) ==
    LET delayBucket == DelayBucket(delayMins)
        lastBucket == MapGet(m.notifiedDelays, svc.ServiceUid, 0)
        shouldNotify == ShouldNotify(delayBucket, lastBucket)
        m2 == IF shouldNotify
              THEN [m EXCEPT !.notifiedDelays = MapPut(@, svc.ServiceUid, delayBucket)]
              ELSE m
        platform == IF svc.Platform = "" THEN "TBC" ELSE svc.Platform
    IN  IF ~shouldNotify
        THEN Result(m2, Quiet("delayed", svc.ServiceUid, delayMins, NoLine), FALSE)
        ELSE Result(m2, Outcome("delayed", svc.ServiceUid, delayMins, NoLine,
                                "TrainDelay", platform, dlv), FALSE)

\* processService taking the gated path whatever the mode flag says.
processServiceGatedOnly(m, svc, alwaysNotify, dlv) ==
    LET delayMins == IF svc.RealtimeDeparture # <<>> /\ svc.GbttBookedDeparture # <<>>
                     THEN calculateDelay(svc.GbttBookedDeparture, svc.RealtimeDeparture)
                     ELSE 0
    IN  IF Cancelled(svc) THEN handleCancellation(m, svc, dlv)
        ELSE IF delayMins > 0 THEN handleDelay(m, svc, delayMins, dlv)
        ELSE Result(m, Quiet("on_time", svc.ServiceUid, 0, NoLine), FALSE)

\* processService whose always-notify delay notification raises the mark.
processServiceMarking(m, svc, alwaysNotify, dlv) ==
    LET platform == IF svc.Platform = "" THEN "TBC" ELSE svc.Platform
        delayMins == IF svc.RealtimeDeparture # <<>> /\ svc.GbttBookedDeparture # <<>>
                     THEN calculateDelay(svc.GbttBookedDeparture, svc.RealtimeDeparture)
                     ELSE 0
    IN  IF Cancelled(svc) THEN handleCancellation(m, svc, dlv)
        ELSE IF delayMins > 0
        THEN IF alwaysNotify
             THEN Result([m EXCEPT !.notifiedDelays =
                                MapPut(@, svc.ServiceUid, DelayBucket(delayMins))],
                         Outcome("delayed", svc.ServiceUid, delayMins, NoLine,
                                 "TrainDelay", platform, dlv), FALSE)
             ELSE handleDelay(m, svc, delayMins, dlv)
        ELSE IF alwaysNotify
        THEN Result(m, Outcome("on_time", svc.ServiceUid, 0, NoLine,
                               "TrainOnTime", platform, dlv), FALSE)
        ELSE Result(m, Quiet("on_time", svc.ServiceUid, 0, NoLine), FALSE)

processService(m, svc, alwaysNotify, dlv) ==
    LET platform == IF svc.Platform = "" THEN "TBC" ELSE svc.Platform
        delayMins == IF svc.RealtimeDeparture # <<>> /\ svc.GbttBookedDeparture # <<>>
                     THEN calculateDelay(svc.GbttBookedDeparture, svc.RealtimeDeparture)
                     ELSE 0
    IN  IF Cancelled(svc) THEN handleCancellation(m, svc, dlv)
        ELSE IF delayMins > 0
        THEN IF alwaysNotify
             THEN Result(m, Outcome("delayed", svc.ServiceUid, delayMins, NoLine,
                                    "TrainDelay", platform, dlv), FALSE)
             ELSE handleDelay(m, svc, delayMins, dlv)
        ELSE IF alwaysNotify
        THEN Result(m, Outcome("on_time", svc.ServiceUid, 0, NoLine,
                               "TrainOnTime", platform, dlv), FALSE)
        ELSE Result(m, Quiet("on_time", svc.ServiceUid, 0, NoLine), FALSE)

\* The body shared by CheckDelay and CheckStatus (train.go 102-135, 138-171).
checkJourney(m, search, departureTime, clock, alwaysNotify, dlv) ==
    IF parseTimeToday(departureTime, clock) = ParseError
    THEN Result(m, Failed("parse_error"), FALSE)
    ELSE IF search.err THEN fetchFailed(m)
    ELSE IF Len(search.Services) = 0
    THEN Result(m, Quiet("no_service", 0, 0, NoLine), FALSE)
    ELSE LET i == findMatchingService(search.Services, departureTime)
         IN  IF i = 0 THEN Result(m, Quiet("no_service", 0, 0, NoLine), FALSE)
             ELSE processService(m, search.Services[i], alwaysNotify, dlv)

CheckDelay(m, search, departureTime, clock, dlv) ==
    checkJourney(m, search, departureTime, clock, FALSE, dlv)

TrainCheckStatus(m, search, departureTime, clock, dlv) ==
    checkJourney(m, search, departureTime, clock, TRUE, dlv)

\* Index of the first location with the destination's station code, 0 if none.
FirstAt(locations, to) ==
    LET hits == {i \in 1..Len(locations) : locations[i].CRS = to}
    IN  IF hits = {} THEN 0 ELSE CHOOSE i \in hits : \A j \in hits : i <= j

CheckArrival(m, search, detail, to, departureTime, clock, dlv) ==
    IF parseTimeToday(departureTime, clock) = ParseError
    THEN Result(m, Failed("parse_error"), FALSE)
    ELSE IF search.err THEN fetchFailed(m)
    ELSE IF Len(search.Services) = 0
    THEN Result(m, Quiet("no_service", 0, 0, NoLine), FALSE)
    ELSE LET i == findMatchingService(search.Services, departureTime)
         IN  IF i = 0 THEN Result(m, Quiet("no_service", 0, 0, NoLine), FALSE)
             ELSE IF detail.err THEN fetchFailed(m)
             ELSE LET uid == search.Services[i].ServiceUid
                      k == FirstAt(detail.Locations, to)
                  IN  IF k # 0 /\ detail.Locations[k].RealtimeArrivalActual
                      THEN Result(m, Outcome("arrived", uid, 0, NoLine,
                                             "TrainArrival", "", dlv), TRUE)
                      ELSE Result(m, Quiet("not_arrived", uid, 0, NoLine), FALSE)

\* The lookup reading the booked arrival alone.
GetExpectedArrivalTimeBooked(search, detail, to, departureTime, clock) ==
    IF parseTimeToday(departureTime, clock) = ParseError THEN ParseError
    ELSE IF search.err THEN ParseError
    ELSE IF Len(search.Services) = 0 THEN ParseError
    ELSE IF findMatchingService(search.Services, departureTime) = 0 THEN ParseError
    ELSE IF detail.err THEN ParseError
    ELSE LET k == FirstAt(detail.Locations, to)
         IN  IF k = 0 THEN ParseError
             ELSE LET arrivalStr == detail.Locations[k].GbttBookedArrival
                      arrivalTime == parseHHMM(arrivalStr)
                  IN  IF arrivalStr = <<>> THEN ParseError
                      ELSE IF arrivalTime = ParseError THEN ParseError
                      ELSE DayStart(clock) + arrivalTime

\* The expected arrival as a clock minute of today, or ParseError for any of
\* the function's error returns.
GetExpectedArrivalTime(search, detail, to, departureTime, clock) ==
    IF parseTimeToday(departureTime, clock) = ParseError THEN ParseError
    ELSE IF search.err THEN ParseError
    ELSE IF Len(search.Services) = 0 THEN ParseError
    ELSE IF findMatchingService(search.Services, departureTime) = 0 THEN ParseError
    ELSE IF detail.err THEN ParseError
    ELSE LET k == FirstAt(detail.Locations, to)
         IN  IF k = 0 THEN ParseError
             ELSE LET loc == detail.Locations[k]
                      arrivalStr == IF loc.RealtimeArrival = <<>>
                                    THEN loc.GbttBookedArrival
                                    ELSE loc.RealtimeArrival
                      arrivalTime == parseHHMM(arrivalStr)
                  IN  IF arrivalStr = <<>> THEN ParseError
                      ELSE IF arrivalTime = ParseError THEN ParseError
                      ELSE DayStart(clock) + arrivalTime

\* A reset that clears the cancellations only.
TrainResetCancelsOnly(m) == [m EXCEPT !.notifiedCancels = EmptyMap]

TrainReset(m) ==
    [m EXCEPT !.notifiedDelays = EmptyMap, !.notifiedCancels = EmptyMap]

----------------------------------------------------------------------------
(* internal/api/tfl/types.go and internal/monitor/tube.go                  *)

StatusGoodService == 10
StatusServiceClosed == 6

IsGoodService(s) == s.sev = StatusGoodService

HasDisruption(s) == s.sev < StatusGoodService /\ s.sev # StatusServiceClosed

\* The comparison of tube.go 54 always finding a change.
statusChangedAlways(m, statusDesc, reason) == TRUE

statusChanged(m, statusDesc, reason) ==
    m.lastStatus # statusDesc \/ m.lastStatusReason # reason

\* The test of tube.go 55 never finding a first check.
isFirstCheckNever(m) == FALSE

isFirstCheck(m) == m.lastStatus = ""

\* CheckStatus storing an observation it alerts on only once the alert is
\* delivered.
TubeCheckStatusStoringOnDelivery(m, status, dlv) ==
    IF status.err THEN fetchFailed(m)
    ELSE IF Len(status.LineStatuses) = 0
    THEN Result(m, Quiet("no_status", 0, 0, NoLine), FALSE)
    ELSE LET currentStatus == status.LineStatuses[1]
             statusDesc == currentStatus.desc
             reason == currentStatus.reason
             changed == statusChanged(m, statusDesc, reason)
             first == isFirstCheck(m)
             m2 == [m EXCEPT !.lastStatus = statusDesc, !.lastStatusReason = reason]
         IN  IF ~changed
             THEN Result(m2, Quiet("line", 0, 0, currentStatus), FALSE)
             ELSE IF first /\ IsGoodService(currentStatus)
             THEN Result(m2, Quiet("line", 0, 0, currentStatus), FALSE)
             ELSE IF HasDisruption(currentStatus) \/ (~first /\ changed)
             THEN Result(IF dlv THEN m2 ELSE m,
                         Outcome("line", 0, 0, currentStatus, "TubeDisruption",
                                 IF reason = "" THEN "No additional details"
                                 ELSE reason, dlv), FALSE)
             ELSE Result(m2, Quiet("line", 0, 0, currentStatus), FALSE)

TubeCheckStatus(m, status, dlv) ==
    IF status.err THEN fetchFailed(m)
    ELSE IF Len(status.LineStatuses) = 0
    THEN Result(m, Quiet("no_status", 0, 0, NoLine), FALSE)
    ELSE LET currentStatus == status.LineStatuses[1]
             statusDesc == currentStatus.desc
             reason == currentStatus.reason
             changed == statusChanged(m, statusDesc, reason)
             first == isFirstCheck(m)
             m2 == [m EXCEPT !.lastStatus = statusDesc, !.lastStatusReason = reason]
         IN  IF ~changed
             THEN Result(m2, Quiet("line", 0, 0, currentStatus), FALSE)
             ELSE IF first /\ IsGoodService(currentStatus)
             THEN Result(m2, Quiet("line", 0, 0, currentStatus), FALSE)
             ELSE IF HasDisruption(currentStatus) \/ (~first /\ changed)
             THEN Result(m2, Outcome("line", 0, 0, currentStatus, "TubeDisruption",
                                     IF reason = "" THEN "No additional details"
                                     ELSE reason, dlv), FALSE)
             ELSE Result(m2, Quiet("line", 0, 0, currentStatus), FALSE)

SendStatusSummary(m, status, dlv) ==
    IF status.err THEN fetchFailed(m)
    ELSE IF Len(status.LineStatuses) = 0
    THEN Result(m, Outcome("no_status", 0, 0, NoLine, "TubeStatus",
                           "Unable to retrieve status", dlv), FALSE)
    ELSE Result(m, Outcome("summary", 0, 0, status.LineStatuses[1], "TubeStatus",
                           status.LineStatuses[1].reason, dlv), FALSE)

TubeReset(m) == [m EXCEPT !.lastStatus = "", !.lastStatusReason = ""]

----------------------------------------------------------------------------
(* The record of a run: what the checks of the last operation observed and *)
(* sent, and the tallies since the last reset.  None of it is read by the  *)
(* operators above.                                                        *)

\* One log entry: the outcome of a check, the method that made it, the task
\* that called it (task 0, type "api": a direct call of the method), and what
\* the monitors held when the check began (stored, latch, pair) and whether
\* they hold the same when it returns (kept).
Entry(e, op, task, type, at, m, after) ==
    [seen |-> e.seen, uid |-> e.uid, delay |-> e.delay, line |-> e.line,
     note |-> e.note, text |-> e.text, ok |-> e.ok, err |-> e.err,
     op |-> op, task |-> task, type |-> type, at |-> at,
     stored |-> MapGet(m.notifiedDelays, e.uid, 0),
     latch |-> MapGet(m.notifiedCancels, e.uid, FALSE),
     pair |-> <<m.lastStatus, m.lastStatusReason>>,
     kept |-> after = m]

\* The 5-minute band of a delay, as the specification words it.
Bucket(d) == (d \div 5) * 5

GatedDelaySent(en) == en.op = "CheckDelay" /\ en.note = "TrainDelay"

Saturate(n) == IF n > MaxRuns THEN MaxRuns ELSE n

\* The tallies since the reset: g.gatedMark, g.cancelSeen, g.cancelSent,
\* g.lineSeen.
Tallies(gm, cs, ct, ls) ==
    [gatedMark |-> gm, cancelSeen |-> cs, cancelSent |-> ct, lineSeen |-> ls]

NoGatedMark == [u \in UIDs |-> 0]
NoCancelSent == [u \in UIDs |-> 0]

\* The tallies after the entry en.
TallyOne(g, en) ==
    Tallies(IF GatedDelaySent(en)
            THEN [g.gatedMark EXCEPT ![en.uid] = Bucket(en.delay)] ELSE g.gatedMark,
            IF en.seen = "cancelled" THEN g.cancelSeen \cup {en.uid} ELSE g.cancelSeen,
            IF en.note = "TrainCancellation"
            THEN [g.cancelSent EXCEPT ![en.uid] = Saturate(@ + 1)] ELSE g.cancelSent,
            IF en.op = "TubeCheckStatus" /\ en.seen = "line" THEN en.line
            ELSE g.lineSeen)

\* The entry en with the tallies as they stood before it: the bucket last
\* notified for its service (0: none), whether its service was seen cancelled,
\* and the line status last observed.
Marked(en, g) ==
    [seen |-> en.seen, uid |-> en.uid, delay |-> en.delay, line |-> en.line,
     note |-> en.note, text |-> en.text, ok |-> en.ok, err |-> en.err,
     op |-> en.op, task |-> en.task, type |-> en.type, at |-> en.at,
     stored |-> en.stored, latch |-> en.latch, pair |-> en.pair, kept |-> en.kept,
     wasMark |-> IF en.uid \in UIDs THEN g.gatedMark[en.uid] ELSE 0,
     wasCancelled |-> en.uid \in g.cancelSeen,
     wasLine |-> g.lineSeen]

\* The entries marked in order, and the tallies after them.
RECURSIVE Annotate(_, _, _)
Annotate(entries, g, done) ==
    IF entries = <<>> THEN [log |-> done, g |-> g]
    ELSE Annotate(Tail(entries), TallyOne(g, Head(entries)),
                  Append(done, Marked(Head(entries), g)))

Journeys == {"morning", "evening"}

JourneyOf(type) ==
    IF type \in {"MorningDelayCheck", "MorningArrivalCheck", "MorningStatusUpdate"}
    THEN "morning"
    ELSE IF type \in {"EveningDelayCheck", "EveningArrivalCheck", "EveningStatusUpdate"}
    THEN "evening" ELSE "none"

ArrivalSentAfter(a, entries) ==
    [j \in DOMAIN a |->
        Saturate(a[j] + Cardinality({i \in DOMAIN entries :
                        entries[i].note = "TrainArrival" /\ JourneyOf(entries[i].type) = j}))]

NoArrivalSent == [j \in Journeys |-> 0]

NothingYesterday == [delays |-> {}, cancels |-> {}]

----------------------------------------------------------------------------
(* What the sources may answer                                             *)

Service(uid, booked, realtime, displayAs, reason, platform) ==
    [ServiceUid |-> uid, GbttBookedDeparture |-> booked,
     RealtimeDeparture |-> realtime, DisplayAs |-> displayAs,
     CancelReasonShortText |-> reason, Platform |-> platform]

\* The services of the journey booked at minute-of-day dep: running with a
\* realtime departure d minutes late (or none, or early), or cancelled.
ServicesAt(dep, uids, delays) ==
    {Service(u, HHMM(dep), rt, "CALL", "", "") :
        u \in uids, rt \in {<<>>} \cup {HHMM(dep + d) : d \in delays}}
    \cup {Service(u, HHMM(dep), <<>>, "CANCELLED_CALL", r, "") :
        u \in uids, r \in {"", "Fault"}}

\* A service of the same route booked ten minutes earlier: never the match.
OtherService(dep) == Service(0, HHMM(dep - 10), <<>>, "CALL", "", "")

SearchError == [err |-> TRUE, Services |-> <<>>]

Found(services) == [err |-> FALSE, Services |-> services]

SearchResponses(dep, uids, delays) ==
    {SearchError, Found(<<>>), Found(<<OtherService(dep)>>)}
    \cup {Found(<<s>>) : s \in ServicesAt(dep, uids, delays)}
    \cup {Found(<<OtherService(dep), s>>) : s \in ServicesAt(dep, uids, {0})}

Location(crs, actual, realtime, booked) ==
    [CRS |-> crs, RealtimeArrivalActual |-> actual,
     RealtimeArrival |-> realtime, GbttBookedArrival |-> booked]

DetailError == [err |-> TRUE, Locations |-> <<>>]

\* The stops of a service from `from` to `to` booked to arrive at minute arr.
DetailResponses(from, to, arr) ==
    {DetailError,
     [err |-> FALSE, Locations |-> <<Location(from, TRUE, <<>>, <<>>)>>]}
    \cup {[err |-> FALSE,
           Locations |-> <<Location(from, TRUE, <<>>, <<>>),
                           Location(to, actual, <<>>, HHMM(arr))>>] :
            actual \in BOOLEAN}

\* Severity codes and their descriptions (tfl/types.go 35-46) as the line
\* source gives them when it fills every field: the description names the
\* severity, so it is not empty and two statuses of different severity differ
\* in description.  RawStates below adds the statuses without a description.
LineStates ==
    {<<10, "Good Service">>, <<10, "No Issues">>, <<9, "Special Service">>,
     <<6, "Service Closed">>, <<5, "Minor Delays">>}

Reasons == {"", "Signal failure"}

StatusDetail(sev, desc, reason) == [sev |-> sev, desc |-> desc, reason |-> reason]

LineError == [err |-> TRUE, LineStatuses |-> <<>>]

LineResponses(states, reasons) ==
    {LineError, [err |-> FALSE, LineStatuses |-> <<>>]}
    \cup {[err |-> FALSE, LineStatuses |-> <<StatusDetail(s[1], s[2], r)>>] :
            s \in states, r \in reasons}

----------------------------------------------------------------------------
(* internal/config/config.go                                               *)

\* Days is the set of active weekdays, 0 = Sunday; day 0 of the clock is one.
TrainConfig(from, to, departure, days) ==
    [From |-> from, To |-> to, Departure |-> departure, Days |-> days]

Weekday(clock) == (clock \div (24 * 60)) % 7

\* A journey taken as active on every weekday whatever its Days.
IsActiveDayAlways(t, weekday) == TRUE

IsActiveDay(t, weekday) == t.Days = {} \/ weekday \in t.Days

IsActiveToday(t, clock) == IsActiveDay(t, Weekday(clock))

DepartureTime(t, clock) ==
    LET parsed == timeParse1504(t.Departure)
    IN  IF parsed = ParseError THEN ParseError ELSE DayStart(clock) + parsed

----------------------------------------------------------------------------
(* The scheduler (src/main.go 94-400)                                      *)

Task(type, time, repeating) ==
    [Type |-> type, Time |-> time, Executed |-> FALSE, Repeating |-> repeating]

\* time.Time.Day(): the day of the month, in a calendar of 31-day months
\* whose first day is day 0 of the clock.
Day(clock) == ((clock \div (24 * 60)) % 31) + 1

Window == 2

\* The line checks stopping short of the departure: t >= morningDep ends.
RECURSIVE LineCheckTasksExclusive(_, _)
LineCheckTasksExclusive(t, morningDep) ==
    IF t >= morningDep THEN <<>>
    ELSE <<Task("NorthernLineCheck", t, FALSE)>>
         \o LineCheckTasksExclusive(t + 5, morningDep)

\* The window open at its near end: diff > 0 for diff >= 0.
isWithinWindowAfter(taskTime, clock, window) ==
    LET diff == clock - taskTime
    IN  diff > 0 /\ diff < window

\* The window closed at its far end: diff <= window for diff < window.
isWithinWindowInclusive(taskTime, clock, window) ==
    LET diff == clock - taskTime
    IN  diff >= 0 /\ diff <= window

isWithinWindow(taskTime, clock, window) ==
    LET diff == clock - taskTime
    IN  diff >= 0 /\ diff < window

RECURSIVE LineCheckTasks(_, _)
LineCheckTasks(t, morningDep) ==
    IF t > morningDep THEN <<>>
    ELSE <<Task("NorthernLineCheck", t, FALSE)>> \o LineCheckTasks(t + 5, morningDep)

JourneyTasks(dep, delayCheck, statusUpdate, arrivalCheck) ==
    << Task(delayCheck, dep - 60, FALSE), Task(delayCheck, dep - 45, FALSE),
       Task(delayCheck, dep - 30, FALSE), Task(delayCheck, dep - 15, FALSE),
       Task(statusUpdate, dep - 60, FALSE), Task(statusUpdate, dep - 30, FALSE),
       Task(arrivalCheck, dep + 70, TRUE) >>

\* The task list built at clock reading `clock`; search and detail are the
\* journey source's answers to the expected-arrival lookup.
setupDailyTasks(c, clock, search, detail) ==
    LET morningDep == DepartureTime(c.MorningTrain, clock)
        eveningDep == DepartureTime(c.EveningTrain, clock)
        morningActive == IsActiveToday(c.MorningTrain, clock) /\ morningDep # ParseError
        eveningActive == IsActiveToday(c.EveningTrain, clock) /\ eveningDep # ParseError
        arrivalTime == GetExpectedArrivalTime(search, detail, c.MorningTrain.To,
                                              c.MorningTrain.Departure, clock)
        morning == JourneyTasks(morningDep, "MorningDelayCheck",
                                "MorningStatusUpdate", "MorningArrivalCheck")
                   \o LineCheckTasks(morningDep - 60, morningDep)
                   \o (IF arrivalTime = ParseError THEN <<>>
                       ELSE <<Task("NorthernLineSummary", arrivalTime - 15, FALSE)>>)
        evening == JourneyTasks(eveningDep, "EveningDelayCheck",
                                "EveningStatusUpdate", "EveningArrivalCheck")
    IN  IF ~IsActiveToday(c.MorningTrain, clock) /\ ~IsActiveToday(c.EveningTrain, clock)
        THEN <<>>
        ELSE (IF morningActive THEN morning ELSE <<>>)
             \o (IF eveningActive THEN evening ELSE <<>>)

\* An arrival check that reschedules itself whatever the monitor reported.
AfterArrivalCheckRescheduling(task, arrived) == [task EXCEPT !.Time = @ + 5]

\* An arrival check that has not arrived left at its scheduled time.
AfterArrivalCheckStaying(task, arrived) ==
    IF arrived THEN [task EXCEPT !.Repeating = FALSE] ELSE task

\* One execution of an arrival check (main.go 347-369).
AfterArrivalCheck(task, arrived) ==
    IF arrived THEN [task EXCEPT !.Repeating = FALSE]
    ELSE [task EXCEPT !.Time = @ + 5]

\* executeTask without the write of main.go 398.
MarkExecutedNever(task) == task

\* main.go 397-399
MarkExecuted(task) ==
    IF ~task.Repeating THEN [task EXCEPT !.Executed = TRUE] ELSE task

\* The monitor method a task type dispatches to, applied to the answers r of
\* the sources: [mon, e, arrived].
Dispatch(c, m, type, r, clock) ==
    CASE type = "MorningDelayCheck" ->
            CheckDelay(m, r.search, c.MorningTrain.Departure, clock, r.dlv)
      [] type = "EveningDelayCheck" ->
            CheckDelay(m, r.search, c.EveningTrain.Departure, clock, r.dlv)
      [] type = "MorningArrivalCheck" ->
            CheckArrival(m, r.search, r.detail, c.MorningTrain.To,
                         c.MorningTrain.Departure, clock, r.dlv)
      [] type = "EveningArrivalCheck" ->
            CheckArrival(m, r.search, r.detail, c.EveningTrain.To,
                         c.EveningTrain.Departure, clock, r.dlv)
      [] type = "NorthernLineCheck" -> TubeCheckStatus(m, r.line, r.dlv)
      [] type = "NorthernLineSummary" -> SendStatusSummary(m, r.line, r.dlv)
      [] type = "MorningStatusUpdate" ->
            TrainCheckStatus(m, r.search, c.MorningTrain.Departure, clock, r.dlv)
      [] type = "EveningStatusUpdate" ->
            TrainCheckStatus(m, r.search, c.EveningTrain.Departure, clock, r.dlv)

IsArrivalCheck(type) == type \in {"MorningArrivalCheck", "EveningArrivalCheck"}

\* executeTask on task i of the list tk: the list and the monitors after
\* it, and the outcome of the check.
executeTask(c, tk, m, i, r, clock) ==
    LET res == Dispatch(c, m, tk[i].Type, r, clock)
        t1 == IF IsArrivalCheck(tk[i].Type)
              THEN AfterArrivalCheck(tk[i], res.arrived) ELSE tk[i]
    IN  [tasks |-> [tk EXCEPT ![i] = MarkExecuted(t1)], mon |-> res.mon, e |-> res.e]

\* The test of the tick loop on one task (main.go 204-210).
Due(task, clock) ==
    /\ ~(task.Executed /\ ~task.Repeating)
    /\ isWithinWindow(task.Time, clock, Window)

----------------------------------------------------------------------------
(* The program run by main: Start, then one tick after another             *)

MorningDeparture == <<0, 1, 0, 0>>
EveningDeparture == <<2, 3, 5, 3>>

Configs ==
    {[MorningTrain |-> TrainConfig("WOK", "WAT", MorningDeparture, {}),
      EveningTrain |-> TrainConfig("WAT", "WOK", EveningDeparture, {})]}

\* Clock readings at which the process is started: 00:44 and 02:09 of day 0
\* (before the morning's last delay check, before its arrival check) and 23:37
\* of day 0 (before the last evening delay check and the rollover to day 1).
StartTimes == {44, 129, 23 * 60 + 37}

InRange(t) == \E s \in StartTimes : s <= t /\ t <= s + Horizon

\* The answers the sources give the scheduled checks: one service uid, on
\* time, 6 minutes late or cancelled.
SchedDelays == {0, 6}

DepartureOf(c, type) ==
    IF JourneyOf(type) = "evening" THEN c.EveningTrain ELSE c.MorningTrain

SchedSearches(t) ==
    LET dep == timeParse1504(t.Departure)
    IN  {SearchError, Found(<<>>)}
        \cup {Found(<<s>>) : s \in ServicesAt(dep, {1}, SchedDelays)}

SchedLines == LineResponses({<<10, "Good Service">>, <<5, "Minor Delays">>}, {""})

Answers(search, detail, line, dlv) ==
    [search |-> search, detail |-> detail, line |-> line, dlv |-> dlv]

\* What the sources may answer a task of the given type.
AnswersFor(c, type) ==
    LET t == DepartureOf(c, type)
    IN  IF type \in {"NorthernLineCheck", "NorthernLineSummary"}
        THEN {Answers(SearchError, DetailError, l, d) : l \in SchedLines, d \in BOOLEAN}
        ELSE IF IsArrivalCheck(type)
        THEN {Answers(s, dt, LineError, d) :
                s \in {SearchError, Found(<<>>),
                       Found(<<Service(1, t.Departure, <<>>, "CALL", "", "")>>)},
                dt \in DetailResponses(t.From, t.To, timeParse1504(t.Departure) + 65),
                d \in BOOLEAN}
        ELSE {Answers(s, DetailError, LineError, d) :
                s \in SchedSearches(t), d \in BOOLEAN}

\* The answers to the expected-arrival lookup of setupDailyTasks: a failed
\* search, or the morning service booked to arrive 10 minutes after it leaves
\* (so that the summary task falls among the morning's checks of the model).
SetupAnswers(c) ==
    LET t == c.MorningTrain
        found == Found(<<Service(1, t.Departure, <<>>, "CALL", "", "")>>)
    IN  {Answers(SearchError, DetailError, LineError, TRUE),
         Answers(found,
                 [err |-> FALSE,
                  Locations |-> <<Location(t.To, FALSE, <<>>,
                                           HHMM(timeParse1504(t.Departure) + 10))>>],
                 LineError, TRUE)}

OpOf(type) ==
    CASE type \in {"MorningDelayCheck", "EveningDelayCheck"} -> "CheckDelay"
      [] type \in {"MorningStatusUpdate", "EveningStatusUpdate"} -> "CheckStatus"
      [] IsArrivalCheck(type) -> "CheckArrival"
      [] type = "NorthernLineCheck" -> "TubeCheckStatus"
      [] type = "NorthernLineSummary" -> "SendStatusSummary"

CurrentMon == Mon(notifiedDelays, notifiedCancels, lastStatus, lastStatusReason)

SetMon(m) ==
    /\ notifiedDelays' = m.notifiedDelays
    /\ notifiedCancels' = m.notifiedCancels
    /\ lastStatus' = m.lastStatus
    /\ lastStatusReason' = m.lastStatusReason

\* The log and the tallies after the entries lg, the tallies reset first when
\* the monitors were.
Tally(lg, trainReset, tubeReset) ==
    \E x \in {Annotate(lg,
                       Tallies(IF trainReset THEN NoGatedMark ELSE gatedMark,
                               IF trainReset THEN {} ELSE cancelSeen,
                               IF trainReset THEN NoCancelSent ELSE cancelSent,
                               IF tubeReset THEN NoLine ELSE lineSeen),
                       <<>>)} :
        /\ log' = x.log
        /\ gatedMark' = x.g.gatedMark
        /\ cancelSeen' = x.g.cancelSeen
        /\ cancelSent' = x.g.cancelSent
        /\ lineSeen' = x.g.lineSeen

\* The goroutines that may call the monitors at the same time.
Callers == {1, 2}

\* A caller that is in no call.
NotCalling == [pc |-> "idle", op |-> "none", uid |-> 0, bucket |-> 0,
               desc |-> "", reason |-> "", sev |-> 0, notify |-> FALSE]

\* No notify decision has been taken.
NoDecision == EmptyMap

\* The monitors and the scheduler as their constructors leave them, and the
\* observation of the run empty.
Constructed ==
    /\ notifiedDelays = NewTrainMonitor.notifiedDelays
    /\ notifiedCancels = NewTrainMonitor.notifiedCancels
    /\ lastStatus = NewTubeMonitor.lastStatus
    /\ lastStatusReason = NewTubeMonitor.lastStatusReason
    /\ tasks = <<>>
    /\ currentDay = 0
    /\ phase = "new"
    /\ last = "New"
    /\ log = <<>>
    /\ lineSeen = NoLine
    /\ gatedMark = NoGatedMark
    /\ cancelSeen = {}
    /\ cancelSent = NoCancelSent
    /\ runs = <<>>
    /\ arrivalSent = NoArrivalSent
    /\ yesterday = NothingYesterday
    /\ failed = FALSE
    /\ dayChanged = FALSE
    /\ undelivered = {}
    /\ mu = [train |-> 0, tube |-> 0]
    /\ proc = [p \in Callers |-> NotCalling]
    /\ decided = NoDecision
    /\ ctxDone = FALSE
    /\ stopCh = "open"
    /\ stopReturned = FALSE

Init == Constructed /\ cfg \in Configs /\ now \in StartTimes

\* Scheduler.Start and the head of Scheduler.run: the first task list.
Start ==
    /\ phase = "new"
    /\ phase' = "running"
    /\ \E a \in SetupAnswers(cfg) :
          tasks' = setupDailyTasks(cfg, now, a.search, a.detail)
    /\ currentDay' = Day(now)
    /\ runs' = [i \in DOMAIN tasks' |-> 0]
    /\ arrivalSent' = NoArrivalSent
    /\ last' = "Start"
    /\ log' = <<>>
    /\ UNCHANGED <<monVars, cfg, now, lineSeen, gatedMark, cancelSeen, cancelSent,
                   yesterday, tickVars, undelivered, concVars, lifeVars>>

\* The tasks the loop of Scheduler.tick executes at clock reading `clock`.
\* Executing one task changes no other task, so the test of each task can be
\* made on the list as it stands when the loop begins.
DueTasks(tk, clock) == {i \in DOMAIN tk : Due(tk[i], clock)}

\* Every choice of answers by the sources, one for each task of the set due.
RECURSIVE AnswersForAll(_, _, _)
AnswersForAll(c, tk, due) ==
    IF due = {} THEN {EmptyMap}
    ELSE LET i == CHOOSE k \in due : \A j \in due : k >= j
         IN  {MapPut(f, i, r) : f \in AnswersForAll(c, tk, due \ {i}),
                                r \in AnswersFor(c, tk[i].Type)}

LoopState(tk, m, lg, rn) == [tasks |-> tk, mon |-> m, log |-> lg, runs |-> rn]

\* One turn of the loop of Scheduler.tick, on a task that is due.
LoopStep(c, st, i, r, clock) ==
    LET x == executeTask(c, st.tasks, st.mon, i, r, clock)
    IN  LoopState(x.tasks, x.mon,
                  Append(st.log, Entry(x.e, OpOf(st.tasks[i].Type), i,
                                       st.tasks[i].Type, st.tasks[i].Time, st.mon,
                                       x.mon)),
                  [st.runs EXCEPT ![i] = Saturate(@ + 1)])

\* The loop left at the first task whose check returns an error.
RECURSIVE RunTasksAborting(_, _, _, _, _)
RunTasksAborting(c, st, i, env, clock) ==
    IF i > Len(st.tasks) THEN st
    ELSE IF i \in DOMAIN env
    THEN LET st2 == LoopStep(c, st, i, env[i], clock)
         IN  IF st2.log[Len(st2.log)].err THEN st2
             ELSE RunTasksAborting(c, st2, i + 1, env, clock)
    ELSE RunTasksAborting(c, st, i + 1, env, clock)

\* The loop of Scheduler.tick (main.go 202-211) over the due tasks from
\* index i on, in list order, with the sources answering by env.
RECURSIVE RunTasks(_, _, _, _, _)
RunTasks(c, st, i, env, clock) ==
    IF i > Len(st.tasks) THEN st
    ELSE IF i \in DOMAIN env
    THEN RunTasks(c, LoopStep(c, st, i, env[i], clock), i + 1, env, clock)
    ELSE RunTasks(c, st, i + 1, env, clock)

\* A tick that keeps the list it has when the day has changed.
NextListKeeping(c, tk, clock, rolled, a) == tk

\* The list the loop of a tick runs over: rebuilt when the day has changed
\* (main.go 193-199).
NextList(c, tk, clock, rolled, a) ==
    IF rolled THEN setupDailyTasks(c, clock, a.search, a.detail) ELSE tk

\* Scheduler.tick: the day check with the resets and the rebuild, then the
\* loop.  The result is the LoopState after the tick.
tick(c, tk, m, rn, clock, rolled, a, env) ==
    LET tk0 == NextList(c, tk, clock, rolled, a)
        m0 == IF rolled THEN TubeReset(TrainReset(m)) ELSE m
        rn0 == IF rolled THEN [i \in DOMAIN tk0 |-> 0] ELSE rn
    IN  RunTasks(c, LoopState(tk0, m0, <<>>, rn0), 1, env, clock)

\* Scheduler.tick at a clock reading delta minutes after the last one, for a
\* delta of the set steps.
TickBy(steps) ==
    /\ phase = "running"
    /\ \E delta \in steps :
          LET clock == now + delta
              rolled == Day(clock) # currentDay
          IN  /\ InRange(clock)
              /\ \E a \in IF rolled THEN SetupAnswers(cfg)
                          ELSE {Answers(SearchError, DetailError, LineError, TRUE)} :
                    \E env \in AnswersForAll(cfg, NextList(cfg, tasks, clock, rolled, a),
                                             DueTasks(NextList(cfg, tasks, clock, rolled, a),
                                                      clock)) :
                      \E st \in {tick(cfg, tasks, CurrentMon, runs, clock, rolled, a, env)} :
                          /\ tasks' = st.tasks
                          /\ SetMon(st.mon)
                          /\ runs' = st.runs
                          /\ Tally(st.log, rolled, rolled)
                          /\ failed' = (failed \/ \E k \in DOMAIN st.log : st.log[k].err)
                          /\ arrivalSent' =
                                ArrivalSentAfter(IF rolled THEN NoArrivalSent
                                                 ELSE arrivalSent, st.log)
              /\ now' = clock
              /\ currentDay' = Day(clock)
              /\ dayChanged' = rolled
              /\ yesterday' =
                    IF rolled
                    THEN [delays |-> {<<u, gatedMark[u]>> :
                                        u \in {v \in UIDs : gatedMark[v] > 0}},
                          cancels |-> {u \in UIDs : cancelSent[u] > 0}]
                    ELSE yesterday
    /\ last' = "tick"
    /\ UNCHANGED <<cfg, phase, undelivered, concVars, lifeVars>>

\* The ticker's minute is not kept under load: a tick reads the clock up to
\* MaxStep minutes after the tick before it.
Tick == TickBy(0..MaxStep)

Next == Start \/ Tick

Spec == Init /\ [][Next]_vars

\* The ticker kept to the minute (main.go 170): the first tick a minute after
\* the start, each tick a minute after the one before.
MinuteTick == TickBy({1})

NextMinute == Start \/ MinuteTick

SpecMinute == Init /\ [][NextMinute]_vars

----------------------------------------------------------------------------
(* The monitors driven directly through their exported methods             *)

ApiDeparture == <<0, 7, 2, 0>>

\* Answers of the journey source for the 07:20: any uid, on time, early,
\* late by any of Delays, without a realtime departure, or cancelled.
ApiSearches ==
    SearchResponses(timeParse1504(ApiDeparture), UIDs, Delays \cup {-5})

ApiDetails ==
    DetailResponses("WOK", "WAT", timeParse1504(ApiDeparture) + 30)

ApiLines == LineResponses(LineStates, Reasons)

InitApi == Init /\ now = 44

\* A method of a monitor returned res.
Returned(res, op) ==
    /\ SetMon(res.mon)
    /\ Tally(<<Entry(res.e, op, 0, "api", now, CurrentMon, res.mon)>>, FALSE, FALSE)
    /\ last' = op
    /\ UNCHANGED <<schedVars, runs, arrivalSent, yesterday, tickVars, undelivered, concVars, lifeVars>>

ApiCheckDelay ==
    \E s \in ApiSearches, d \in BOOLEAN :
        Returned(CheckDelay(CurrentMon, s, ApiDeparture, now, d), "CheckDelay")

ApiCheckStatus ==
    \E s \in ApiSearches, d \in BOOLEAN :
        Returned(TrainCheckStatus(CurrentMon, s, ApiDeparture, now, d), "CheckStatus")

ApiCheckArrival ==
    \E s \in {SearchError,
              Found(<<Service(1, ApiDeparture, <<>>, "CALL", "", "")>>)},
       dt \in ApiDetails, d \in BOOLEAN :
        Returned(CheckArrival(CurrentMon, s, dt, "WAT", ApiDeparture, now, d),
                 "CheckArrival")

ApiTrainReset ==
    /\ SetMon(TrainReset(CurrentMon))
    /\ Tally(<<>>, TRUE, FALSE)
    /\ last' = "TrainReset"
    /\ UNCHANGED <<schedVars, runs, arrivalSent, yesterday, tickVars, undelivered, concVars, lifeVars>>

ApiTubeCheckStatus ==
    \E l \in ApiLines, d \in BOOLEAN :
        Returned(TubeCheckStatus(CurrentMon, l, d), "TubeCheckStatus")

ApiSendStatusSummary ==
    \E l \in ApiLines, d \in BOOLEAN :
        Returned(SendStatusSummary(CurrentMon, l, d), "SendStatusSummary")

ApiTubeReset ==
    /\ SetMon(TubeReset(CurrentMon))
    /\ Tally(<<>>, FALSE, TRUE)
    /\ last' = "TubeReset"
    /\ UNCHANGED <<schedVars, runs, arrivalSent, yesterday, tickVars, undelivered, concVars, lifeVars>>

NextTrain == ApiCheckDelay \/ ApiCheckStatus \/ ApiCheckArrival \/ ApiTrainReset

SpecTrain == InitApi /\ [][NextTrain]_vars

NextTube == ApiTubeCheckStatus \/ ApiSendStatusSummary \/ ApiTubeReset

SpecTube == InitApi /\ [][NextTube]_vars

----------------------------------------------------------------------------
(* The tube monitor driven with every status the decoder accepts           *)

\* encoding/json leaves a string field that the response lacks or gives as ""
\* empty (tfl/types.go 12-18, client.go 99-102): a status may come without
\* its description.
RawStates ==
    {<<10, "Good Service">>, <<6, "Service Closed">>, <<5, "Minor Delays">>,
     <<10, "">>, <<5, "">>}

RawLines == LineResponses(RawStates, Reasons)

RawTubeCheckStatus ==
    \E l \in RawLines, d \in BOOLEAN :
        Returned(TubeCheckStatus(CurrentMon, l, d), "TubeCheckStatus")

NextTubeRaw == RawTubeCheckStatus \/ ApiTubeReset

SpecTubeRaw == InitApi /\ [][NextTubeRaw]_vars

----------------------------------------------------------------------------
(* The train monitor driven with booked departures of several lengths      *)

\* Services of the route around the 07:20, 6 or 18 minutes late: booked at
\* "0720" (uid 1), at "072000" with seconds (uid 2), at "07" or at "0710"
\* (uid 0).
MatchServices ==
    LET dep == timeParse1504(ApiDeparture)
    IN  UNION {{Service(1, ApiDeparture, HHMM(dep + late), "CALL", "", ""),
                Service(2, ApiDeparture \o <<0, 0>>, HHMM(dep + late), "CALL", "", ""),
                Service(0, SubSeq(ApiDeparture, 1, 2), HHMM(dep + late), "CALL", "", ""),
                Service(0, HHMM(dep - 10), HHMM(dep + late), "CALL", "", "")} :
               late \in {6, 18}}

MatchSearches ==
    {SearchError, Found(<<>>)}
    \cup {Found(<<a>>) : a \in MatchServices}
    \cup {Found(<<a, b>>) : a \in MatchServices, b \in MatchServices}

MatchCheckDelay ==
    \E s \in MatchSearches, d \in BOOLEAN :
        Returned(CheckDelay(CurrentMon, s, ApiDeparture, now, d), "CheckDelay")

MatchCheckStatus ==
    \E s \in MatchSearches, d \in BOOLEAN :
        Returned(TrainCheckStatus(CurrentMon, s, ApiDeparture, now, d), "CheckStatus")

MatchCheckArrival ==
    \E s \in MatchSearches, dt \in ApiDetails, d \in BOOLEAN :
        Returned(CheckArrival(CurrentMon, s, dt, "WAT", ApiDeparture, now, d),
                 "CheckArrival")

NextMatch == MatchCheckDelay \/ MatchCheckStatus \/ MatchCheckArrival \/ ApiTrainReset

SpecMatch == InitApi /\ [][NextMatch]_vars

----------------------------------------------------------------------------
(* The train monitor driven with a departure shortly before midnight       *)

LateDeparture == <<2, 3, 3, 0>>

\* Realtime departures of the 23:30 in minutes after it: service 1 leaves
\* on time or late before midnight, service 2 leaves early or after
\* midnight, which reads as a time of day before the booked one.
LateOffsets == [u \in UIDs |-> IF u = 1 THEN {0, 3, 6, 12, 18, 24} ELSE {-5, 35, 90}]

LateSearches ==
    {SearchError}
    \cup UNION {{Found(<<Service(u, LateDeparture,
                                 HHMM(timeParse1504(LateDeparture) + d),
                                 "CALL", "", "")>>) : d \in LateOffsets[u]} :
                u \in UIDs}

LateCheckDelay ==
    \E s \in LateSearches, d \in BOOLEAN :
        Returned(CheckDelay(CurrentMon, s, LateDeparture, now, d), "CheckDelay")

LateCheckStatus ==
    \E s \in LateSearches, d \in BOOLEAN :
        Returned(TrainCheckStatus(CurrentMon, s, LateDeparture, now, d), "CheckStatus")

NextLate == LateCheckDelay \/ LateCheckStatus \/ ApiTrainReset

SpecLate == InitApi /\ [][NextLate]_vars

----------------------------------------------------------------------------
(* Both monitors driven directly, with a notifier that may fail            *)

MonDelays == {0, 6, 12}

MonSearches == SearchResponses(timeParse1504(ApiDeparture), {1}, MonDelays)

MonLines ==
    LineResponses({<<10, "Good Service">>, <<5, "Minor Delays">>}, {""})

\* What a check observed, as the dedup memory keys it.
Item(en) ==
    IF en.op = "CheckDelay" /\ en.seen = "delayed"
    THEN <<"delay", en.uid, Bucket(en.delay)>>
    ELSE IF en.seen = "cancelled" THEN <<"cancel", en.uid>>
    ELSE IF en.op = "TubeCheckStatus" /\ en.seen = "line"
    THEN <<"line", en.line.desc, en.line.reason>>
    ELSE <<"none">>

\* A method of a monitor returned res; a notification it sent and the
\* notifier did not deliver is recorded.
ReturnedTracked(res, op) ==
    /\ SetMon(res.mon)
    /\ Tally(<<Entry(res.e, op, 0, "api", now, CurrentMon, res.mon)>>, FALSE, FALSE)
    /\ last' = op
    /\ undelivered' =
          IF res.e.note \in {"TrainDelay", "TrainCancellation", "TubeDisruption"}
             /\ ~res.e.ok
             /\ Item(Entry(res.e, op, 0, "api", now, CurrentMon, res.mon)) # <<"none">>
          THEN undelivered \cup {Item(Entry(res.e, op, 0, "api", now, CurrentMon, res.mon))}
          ELSE undelivered
    /\ UNCHANGED <<schedVars, runs, arrivalSent, yesterday, tickVars, concVars, lifeVars>>

MonCheckDelay ==
    \E s \in MonSearches, d \in BOOLEAN :
        ReturnedTracked(CheckDelay(CurrentMon, s, ApiDeparture, now, d), "CheckDelay")

MonCheckStatus ==
    \E s \in MonSearches, d \in BOOLEAN :
        ReturnedTracked(TrainCheckStatus(CurrentMon, s, ApiDeparture, now, d),
                        "CheckStatus")

MonTubeCheckStatus ==
    \E l \in MonLines, d \in BOOLEAN :
        ReturnedTracked(TubeCheckStatus(CurrentMon, l, d), "TubeCheckStatus")

\* Both ResetNotificationState methods, as the day check of tick calls them.
MonReset ==
    /\ SetMon(TubeReset(TrainReset(CurrentMon)))
    /\ Tally(<<>>, TRUE, TRUE)
    /\ last' = "Reset"
    /\ undelivered' = {}
    /\ UNCHANGED <<schedVars, runs, arrivalSent, yesterday, tickVars, concVars, lifeVars>>

NextMonitors == MonCheckDelay \/ MonCheckStatus \/ MonTubeCheckStatus \/ MonReset

SpecMonitors == InitApi /\ [][NextMonitors]_vars

----------------------------------------------------------------------------
(* Concurrent callers of handleDelay, handleCancellation and the tube      *)
(* CheckStatus, one statement of the locked region at a time               *)

ConcUIDs == {1}
ConcDelays == {6, 7, 12}
ConcLines == {<<10, "Good Service", "">>, <<5, "Minor Delays", "Signal failure">>}

\* The monitor whose mutex a call takes.
MutexOf(op) == IF op = "CheckStatus" THEN "tube" ELSE "train"

\* m.mu.Lock() going ahead whoever holds the mutex.
mutexFreeAlways(holder) == TRUE

\* m.mu.Lock() goes ahead only when nobody holds the mutex.
mutexFree(holder) == holder = 0

\* Between Lock and Unlock.
InSection(c) == c.pc \in {"read", "write", "write2", "unlock"}

\* What a call decides about, as the dedup memory keys it.
ConcItem(c) ==
    IF c.op = "handleDelay" THEN <<"delay", c.uid, c.bucket>>
    ELSE IF c.op = "handleCancellation" THEN <<"cancel", c.uid>>
    ELSE <<"line", c.desc, c.reason>>

\* One more decision to notify for item; a line status found changed starts
\* the count of every other line status afresh.
Decide(d, item, changed, notify) ==
    LET n == MapGet(d, item, 0)
    IN  [k \in (DOMAIN d) \cup {item} |->
            IF k = item THEN (IF ~notify THEN n ELSE IF n >= 2 THEN 2 ELSE n + 1)
            ELSE IF item[1] = "line" /\ changed /\ k[1] = "line" THEN 0
            ELSE d[k]]

\* A goroutine enters handleDelay (train.go 254-255), handleCancellation
\* (229) or CheckStatus (tube.go 38-52) and reaches the Lock.
ConcCall(p) ==
    /\ proc[p].pc = "idle"
    /\ \/ \E u \in ConcUIDs, d \in ConcDelays :
             proc' = [proc EXCEPT ![p] =
                         [NotCalling EXCEPT !.pc = "lock", !.op = "handleDelay",
                                            !.uid = u, !.bucket = DelayBucket(d)]]
       \/ \E u \in ConcUIDs :
             proc' = [proc EXCEPT ![p] =
                         [NotCalling EXCEPT !.pc = "lock", !.op = "handleCancellation",
                                            !.uid = u]]
       \/ \E l \in ConcLines :
             proc' = [proc EXCEPT ![p] =
                         [NotCalling EXCEPT !.pc = "lock", !.op = "CheckStatus",
                                            !.sev = l[1], !.desc = l[2],
                                            !.reason = l[3]]]
    /\ last' = "ConcCall"
    /\ UNCHANGED <<monVars, schedVars, log, lineSeen, gatedMark, cancelSeen, cancelSent,
                   runs, arrivalSent, yesterday, tickVars, undelivered, mu, decided,
                   lifeVars>>

\* m.mu.Lock(): train.go 230, 257; tube.go 53.
ConcLock(p) ==
    /\ proc[p].pc = "lock"
    /\ mutexFree(mu[MutexOf(proc[p].op)])
    /\ mu' = [mu EXCEPT ![MutexOf(proc[p].op)] = p]
    /\ proc' = [proc EXCEPT ![p].pc = "read"]
    /\ last' = "ConcLock"
    /\ UNCHANGED <<monVars, schedVars, log, lineSeen, gatedMark, cancelSeen, cancelSent,
                   runs, arrivalSent, yesterday, tickVars, undelivered, decided, lifeVars>>

\* The read and the decision: train.go 231, 258-259; tube.go 54-55 with the
\* tests of 65-71, which use the locals alone.
ConcRead(p) ==
    LET c == proc[p]
        m == CurrentMon
        changed == statusChanged(m, c.desc, c.reason)
        first == isFirstCheck(m)
        notify ==
            IF c.op = "handleDelay"
            THEN ShouldNotify(c.bucket, MapGet(notifiedDelays, c.uid, 0))
            ELSE IF c.op = "handleCancellation"
            THEN ~MapGet(notifiedCancels, c.uid, FALSE)
            ELSE /\ changed
                 /\ ~(first /\ IsGoodService(c))
                 /\ (HasDisruption(c) \/ (~first /\ changed))
    IN  /\ c.pc = "read"
        /\ proc' = [proc EXCEPT ![p].pc = "write", ![p].notify = notify]
        /\ decided' = Decide(decided, ConcItem(c), c.op = "CheckStatus" /\ changed, notify)
        /\ last' = "ConcRead"
        /\ UNCHANGED <<monVars, schedVars, log, lineSeen, gatedMark, cancelSeen,
                       cancelSent, runs, arrivalSent, yesterday, tickVars, undelivered,
                       mu, lifeVars>>

\* The write: train.go 232-234, 260-262; tube.go 56.
ConcWrite(p) ==
    LET c == proc[p]
    IN  /\ c.pc = "write"
        /\ notifiedDelays' =
              IF c.op = "handleDelay" /\ c.notify
              THEN MapPut(notifiedDelays, c.uid, c.bucket) ELSE notifiedDelays
        /\ notifiedCancels' =
              IF c.op = "handleCancellation" /\ c.notify
              THEN MapPut(notifiedCancels, c.uid, TRUE) ELSE notifiedCancels
        /\ lastStatus' = IF c.op = "CheckStatus" THEN c.desc ELSE lastStatus
        /\ proc' = [proc EXCEPT ![p].pc =
                       IF c.op = "CheckStatus" THEN "write2" ELSE "unlock"]
        /\ last' = "ConcWrite"
        /\ UNCHANGED <<lastStatusReason, schedVars, log, lineSeen, gatedMark, cancelSeen,
                       cancelSent, runs, arrivalSent, yesterday, tickVars, undelivered,
                       mu, decided, lifeVars>>

\* The second write of CheckStatus: tube.go 57.
ConcWriteReason(p) ==
    /\ proc[p].pc = "write2"
    /\ lastStatusReason' = proc[p].reason
    /\ proc' = [proc EXCEPT ![p].pc = "unlock"]
    /\ last' = "ConcWriteReason"
    /\ UNCHANGED <<notifiedDelays, notifiedCancels, lastStatus, schedVars, log, lineSeen,
                   gatedMark, cancelSeen, cancelSent, runs, arrivalSent, yesterday,
                   tickVars, undelivered, mu, decided, lifeVars>>

\* m.mu.Unlock(): train.go 235, 263; tube.go 58.
ConcUnlock(p) ==
    /\ proc[p].pc = "unlock"
    /\ mu' = [mu EXCEPT ![MutexOf(proc[p].op)] = 0]
    /\ proc' = [proc EXCEPT ![p].pc = "send"]
    /\ last' = "ConcUnlock"
    /\ UNCHANGED <<monVars, schedVars, log, lineSeen, gatedMark, cancelSeen, cancelSent,
                   runs, arrivalSent, yesterday, tickVars, undelivered, decided, lifeVars>>

\* The rest of the call, outside the lock: the notification if one was
\* decided, and the return.
ConcReturn(p) ==
    /\ proc[p].pc = "send"
    /\ proc' = [proc EXCEPT ![p] = NotCalling]
    /\ last' = "ConcReturn"
    /\ UNCHANGED <<monVars, schedVars, log, lineSeen, gatedMark, cancelSeen, cancelSent,
                   runs, arrivalSent, yesterday, tickVars, undelivered, mu, decided,
                   lifeVars>>

NextConc ==
    \E p \in Callers :
        \/ ConcCall(p)
        \/ ConcLock(p)
        \/ ConcRead(p)
        \/ ConcWrite(p)
        \/ ConcWriteReason(p)
        \/ ConcUnlock(p)
        \/ ConcReturn(p)

SpecConc == InitApi /\ [][NextConc]_vars

----------------------------------------------------------------------------
(* The scheduler's lifecycle: Start, the select of run, Stop, and the       *)
(* cancellation of the run context by main's signal handler                 *)

\* The process is started at 02:09 of day 0.
LifeStart == 2 * 60 + 9

InitLife == Init /\ now = LifeStart

\* s.wg.Wait() returning whether or not run has returned.
wgWaitReturnsAtOnce(ph) == TRUE

\* s.wg.Wait() of Stop (main.go 164) returns once the wg.Done deferred by run
\* (168) has been called: Start added one (158).
wgWait(ph) == ph = "exited"

\* The cases of the select of run that return: main.go 176-181.
exitReady(done, ch) == done \/ ch = "closed"

\* cancel() of the run context: main.go 68, 75.
Cancel ==
    /\ ~ctxDone
    /\ ctxDone' = TRUE
    /\ last' = "Cancel"
    /\ UNCHANGED <<monVars, schedVars, log, lineSeen, gatedMark, cancelSeen, cancelSent,
                   runs, arrivalSent, yesterday, tickVars, undelivered, concVars,
                   stopCh, stopReturned>>

\* Scheduler.Stop up to the wait: close(s.stopCh), main.go 163.
Stop ==
    /\ phase # "new"
    /\ stopCh = "open"
    /\ stopCh' = "closed"
    /\ last' = "Stop"
    /\ UNCHANGED <<monVars, schedVars, log, lineSeen, gatedMark, cancelSeen, cancelSent,
                   runs, arrivalSent, yesterday, tickVars, undelivered, concVars,
                   ctxDone, stopReturned>>

\* The select of run takes a returning case; the deferred calls run
\* (main.go 168, 171, 176-181).  A tick is never interrupted: the select is
\* reached again only when tick has returned.
LoopExit ==
    /\ phase = "running"
    /\ exitReady(ctxDone, stopCh)
    /\ phase' = "exited"
    /\ last' = "LoopExit"
    /\ UNCHANGED <<monVars, cfg, tasks, currentDay, now, log, lineSeen, gatedMark,
                   cancelSeen, cancelSent, runs, arrivalSent, yesterday, tickVars,
                   undelivered, concVars, lifeVars>>

\* Scheduler.Stop returns: main.go 164-165.
StopReturn ==
    /\ stopCh = "closed"
    /\ ~stopReturned
    /\ wgWait(phase)
    /\ stopReturned' = TRUE
    /\ last' = "StopReturn"
    /\ UNCHANGED <<monVars, schedVars, log, lineSeen, gatedMark, cancelSeen, cancelSent,
                   runs, arrivalSent, yesterday, tickVars, undelivered, concVars,
                   ctxDone, stopCh>>

NextLife == Start \/ Tick \/ Cancel \/ Stop \/ LoopExit \/ StopReturn

\* The select of run chooses among its ready cases at random and a ready
\* returning case stays ready, so it is taken in the end; wg.Wait returns
\* once the counter is zero.
SpecLife ==
    InitLife /\ [][NextLife]_vars /\ WF_vars(LoopExit) /\ WF_vars(StopReturn)

----------------------------------------------------------------------------
(* The program run with journeys limited to weekdays                       *)

\* Day 0 of the clock is weekday 0 and day 1 weekday 1.  The Days of the
\* morning and of the evening journey: the evening alone then the morning
\* alone; no journey then both; both then no journey.
DayConfigs ==
    {[MorningTrain |-> TrainConfig("WOK", "WAT", MorningDeparture, d[1]),
      EveningTrain |-> TrainConfig("WAT", "WOK", EveningDeparture, d[2])] :
        d \in {<<{1}, {0}>>, <<{1}, {1}>>, <<{0}, {0}>>}}

\* The process is started at 23:37 of day 0.
DaysStart == 23 * 60 + 37

InitDays == Constructed /\ cfg \in DayConfigs /\ now = DaysStart

SpecDays == InitDays /\ [][Next]_vars

----------------------------------------------------------------------------
(* The scheduler with departures close to midnight                         *)

EarlyDeparture == <<0, 0, 3, 0>>

\* A morning journey at 00:30 with the evening journey at 23:53, both on
\* every day.
ClockConfigs ==
    {[MorningTrain |-> TrainConfig("WOK", "WAT", EarlyDeparture, {}),
      EveningTrain |-> TrainConfig("WAT", "WOK", EveningDeparture, {})]}

\* The process is started at 23:37 of day 0 and runs into day 1.
InitClock == Constructed /\ cfg \in ClockConfigs /\ now = DaysStart

SpecClock == InitClock /\ [][Next]_vars

----------------------------------------------------------------------------
(* Properties                                                              *)

Entries == {log[i] : i \in DOMAIN log}

GatedDelaySeen(en) == en.op = "CheckDelay" /\ en.seen = "delayed"

LineObserved(en) == en.op = "TubeCheckStatus" /\ en.seen = "line"

Pending(task) == ~(task.Executed /\ ~task.Repeating)

\* C1: between two resets, the gated delay notifications sent for one service
\* carry strictly increasing buckets (each is above the bucket of the gated
\* notification before it, so a later equal or smaller bucket never notifies),
\* and the stored high-water mark of a service never decreases.
C1_GatedBucketsStrictlyIncrease ==
    /\ [](\A en \in Entries : GatedDelaySent(en) => Bucket(en.delay) > en.wasMark)
    /\ [][last' # "TrainReset" =>
            \A u \in UIDs :
                MapGet(notifiedDelays', u, 0) >= MapGet(notifiedDelays, u, 0)]_vars

\* A gated check observes a smaller bucket (at least 5) than the one already
\* notified for the service, and sends nothing.
C1_Witness ==
    \E en \in Entries :
        /\ GatedDelaySeen(en) /\ en.note = "none"
        /\ Bucket(en.delay) >= 5 /\ Bucket(en.delay) < en.wasMark

\* C2: between two resets exactly one cancellation notification is sent for a
\* service observed as cancelled, on the first such observation, whichever of
\* the gated and the always-notify check makes the observations; the latch of
\* a service, once set, is cleared by ResetNotificationState only.  A
\* notification is sent when it is handed to the notifier, whether or not the
\* notifier then delivers it.
C2_OneCancellationNotice ==
    /\ [](\A u \in UIDs : cancelSent[u] = IF u \in cancelSeen THEN 1 ELSE 0)
    /\ [](\A en \in Entries :
            en.seen = "cancelled" =>
                (en.note = "TrainCancellation") = ~en.wasCancelled)
    /\ [][last' # "TrainReset" =>
            \A u \in UIDs :
                MapGet(notifiedCancels, u, FALSE) => MapGet(notifiedCancels', u, FALSE)]_vars

\* An always-notify check observes as cancelled a service already observed
\* as cancelled, and sends nothing: one notification stands for the service.
C2_Witness ==
    \E en \in Entries :
        /\ en.op = "CheckStatus" /\ en.seen = "cancelled"
        /\ en.wasCancelled /\ en.note = "none"
        /\ cancelSent[en.uid] = 1

\* C10: a gated check that observes a delay d > 0 sends a delay notification
\* exactly when (d div 5) * 5 is above the mark stored for the service (0 when
\* none is stored); the mark is then that bucket, and unchanged otherwise.
C10_GatedCheckRule ==
    \A en \in Entries :
        GatedDelaySeen(en) =>
            LET bucket == (en.delay \div 5) * 5
            IN  /\ en.delay > 0
                /\ (en.note = "TrainDelay") = (bucket > en.stored)
                /\ Len(log) = 1 =>
                      MapGet(notifiedDelays, en.uid, 0) =
                          IF en.note = "TrainDelay" THEN bucket ELSE en.stored

\* The 07:20 was notified at bucket 15 and is now seen leaving at 07:41: the
\* gated check notifies and stores bucket 20.
C10_Witness ==
    \E en \in Entries :
        /\ GatedDelaySeen(en) /\ en.delay = 21 /\ en.stored = 15
        /\ en.note = "TrainDelay"
        /\ MapGet(notifiedDelays, en.uid, 0) = 20

\* C7: a line check whose observed (description, reason) equals the pair the
\* check before it observed and stored sends nothing, so two consecutive line
\* checks observing the same pair never both notify.
C7_UnchangedLineIsSilent ==
    \A en \in Entries :
        LineObserved(en) =>
            /\ <<en.line.desc, en.line.reason>> = en.pair => en.note = "none"
            /\ en.wasLine = en.line => en.note = "none"

\* A line check observes minor delays for the second time running and sends
\* nothing.
C7_Witness ==
    \E en \in Entries :
        /\ LineObserved(en) /\ en.wasLine = en.line
        /\ HasDisruption(en.line) /\ en.note = "none"

\* C8: the first line observation after construction or after a reset sends
\* nothing when its severity is good service (10).
C8_FirstGoodIsSilent ==
    \A en \in Entries :
        LineObserved(en) /\ en.wasLine = NoLine /\ en.line.sev = StatusGoodService
            => en.note = "none"

\* The first line check since the reset observes good service.
C8_Witness ==
    \E en \in Entries :
        /\ LineObserved(en) /\ en.wasLine = NoLine /\ last = "TubeCheckStatus"
        /\ en.line.sev = StatusGoodService /\ en.note = "none"
        /\ lastStatus = en.line.desc

\* C9: a line check that observes a severity below good service while the
\* observation stored before it is good service sends a disruption alert; its
\* text is the reason, or "No additional details" when the reason is empty.
\* It holds while every status carries a description (SpecTube).  A good
\* service stored without one reads as nothing stored, and a service closed
\* observed next is taken for a first observation and sends nothing
\* (SpecTubeRaw).
C9_DegradedAfterGoodAlerts ==
    \A en \in Entries :
        LineObserved(en) /\ en.wasLine.sev = StatusGoodService
                         /\ en.line.sev < StatusGoodService
            => /\ en.pair = <<en.wasLine.desc, en.wasLine.reason>>
               /\ en.note = "TubeDisruption"
               /\ en.text = IF en.line.reason = "" THEN "No additional details"
                            ELSE en.line.reason

\* Good service was stored, the line is now closed and no reason is given:
\* the alert carries the placeholder.
C9_Witness ==
    \E en \in Entries :
        /\ LineObserved(en) /\ en.wasLine.sev = StatusGoodService
        /\ en.line.sev = StatusServiceClosed /\ en.line.reason = ""
        /\ en.note = "TubeDisruption" /\ en.text = "No additional details"

\* C3: after a day rollover the monitor's memory of the day before is gone:
\* the memory holds exactly what was notified since the rollover, a gated
\* check that observes a bucket of 5 or more for a service not notified since
\* the rollover sends a delay notification (also when that bucket was notified
\* for the service the day before), and a check that observes as cancelled a
\* service not observed so since the rollover sends a cancellation notice.
C3_RolloverForgets ==
    /\ \A u \in UIDs :
          /\ MapGet(notifiedDelays, u, 0) = gatedMark[u]
          /\ MapGet(notifiedCancels, u, FALSE) = (u \in cancelSeen)
    /\ \A en \in Entries :
          /\ GatedDelaySeen(en) /\ Bucket(en.delay) >= 5 /\ en.wasMark = 0
                => en.note = "TrainDelay"
          /\ en.seen = "cancelled" /\ ~en.wasCancelled
                => en.note = "TrainCancellation"

\* The service notified at a bucket on the day before is notified at the same
\* bucket again by the first gated check after the rollover.
C3_Witness ==
    \E en \in Entries :
        /\ GatedDelaySent(en) /\ en.wasMark = 0
        /\ <<en.uid, Bucket(en.delay)>> \in yesterday.delays

\* C4: an arrival-check task whose check reports arrived is non-recurring and
\* executed when that execution ends, no later tick executes it before the
\* next rollover, and at most one arrival notification is sent per journey
\* and day.
C4_ArrivalIsTerminal ==
    /\ [](\A en \in Entries :
            IsArrivalCheck(en.type) /\ en.seen = "arrived" =>
                tasks[en.task].Executed /\ ~tasks[en.task].Repeating)
    /\ [](\A j \in Journeys : arrivalSent[j] <= 1)
    /\ [][\A i \in DOMAIN tasks :
            /\ IsArrivalCheck(tasks[i].Type)
            /\ tasks[i].Executed /\ ~tasks[i].Repeating
            /\ currentDay' = currentDay
            => \A en \in Entries' : en.task # i]_vars

\* A tick comes within the window of an arrival check that has reported the
\* arrival, and leaves the task alone.
C4_Witness ==
    \E i \in DOMAIN tasks :
        /\ IsArrivalCheck(tasks[i].Type)
        /\ tasks[i].Executed /\ ~tasks[i].Repeating
        /\ arrivalSent[JourneyOf(tasks[i].Type)] = 1
        /\ last = "tick" /\ isWithinWindow(tasks[i].Time, now, Window)
        /\ \A en \in Entries : en.task # i

\* C5: a task created non-recurring is executed at most once between two
\* rebuilds of the task list: it is marked executed by its one execution.
C5_NonRecurringRunsOnce ==
    \A i \in DOMAIN tasks :
        ~IsArrivalCheck(tasks[i].Type) =>
            /\ ~tasks[i].Repeating
            /\ runs[i] = IF tasks[i].Executed THEN 1 ELSE 0

\* A second tick falls within the window of a task already executed, and does
\* not execute it again.
C5_Witness ==
    \E i \in DOMAIN tasks :
        /\ ~IsArrivalCheck(tasks[i].Type) /\ runs[i] = 1
        /\ last = "tick" /\ now = tasks[i].Time + 1
        /\ \A en \in Entries : en.task # i

\* C6: a tick at clock reading now executes exactly the pending tasks whose
\* time T satisfies 0 <= now - T < 2 minutes: every task it executed was in
\* that window, and no pending task is left in it.  A task is therefore never
\* executed once its window has passed.
C6_ExecutedIffInWindow ==
    last = "tick" =>
        /\ \A en \in Entries : 0 <= now - en.at /\ now - en.at < 2
        /\ \A i \in DOMAIN tasks :
              Pending(tasks[i]) => ~(0 <= now - tasks[i].Time /\ now - tasks[i].Time < 2)

\* A tick executes a task one minute after its time, while another task,
\* whose window passed without a tick after the process had started, stays
\* unexecuted.
C6_Witness ==
    /\ last = "tick"
    /\ \E en \in Entries : now - en.at = 1
    /\ \E i \in DOMAIN tasks, s \in StartTimes :
          /\ s <= now /\ now <= s + Horizon /\ s < tasks[i].Time
          /\ Pending(tasks[i]) /\ ~tasks[i].Repeating
          /\ now - tasks[i].Time >= 2

\* The status-update check found the service it looked for.
StatusUpdateMatched(en) ==
    en.op = "CheckStatus" /\ en.seen \in {"cancelled", "delayed", "on_time"}

\* C11 as stated: a status-update check that finds a matching service sends
\* a notification on every execution, whatever the memory holds.
C11_EveryStatusUpdateNotifies ==
    \A en \in Entries : StatusUpdateMatched(en) => en.note # "none"

\* C11, amended: a status-update check that finds a matching service that is
\* not cancelled sends a notification on every execution, whatever the memory
\* holds: a delay notification when the delay is positive, an on-time
\* notification when it is zero.  (A cancelled service is notified once.)
C11_StatusUpdateNotifiesRunning ==
    \A en \in Entries :
        StatusUpdateMatched(en) /\ en.seen # "cancelled" =>
            /\ en.delay >= 0
            /\ en.delay > 0 => en.seen = "delayed" /\ en.note = "TrainDelay"
            /\ en.delay = 0 => en.seen = "on_time" /\ en.note = "TrainOnTime"

\* A status update notifies a delay whose bucket the memory already holds.
C11_Witness ==
    \E en \in Entries :
        /\ StatusUpdateMatched(en) /\ en.delay > 0
        /\ en.stored >= 5 /\ Bucket(en.delay) <= en.stored
        /\ en.note = "TrainDelay"

\* C12: an error returned by the check of one task stops nothing: after
\* every tick, once a check has failed (in this tick or an earlier one), no
\* pending task is left inside its window, so the tasks due with the failing
\* one and the tasks due in later ticks are executed; and a tick changes no
\* field of a task it did not execute.
C12_ErrorsStopNothing ==
    /\ [](last = "tick" /\ failed =>
            \A i \in DOMAIN tasks :
                Pending(tasks[i]) =>
                    ~(tasks[i].Time <= now /\ now < tasks[i].Time + 2))
    /\ [][phase = "running" /\ currentDay' = currentDay =>
            /\ DOMAIN tasks' = DOMAIN tasks
            /\ \A i \in DOMAIN tasks :
                  (\A en \in Entries' : en.task # i) => tasks'[i] = tasks[i]]_vars

\* In one tick the check of a task returns an error and a task later in the
\* list is executed all the same.
C12_Witness ==
    /\ last = "tick"
    /\ \E j, k \in DOMAIN log :
          /\ j < k /\ log[j].err /\ log[j].task # log[k].task
          /\ tasks[log[k].task].Executed

C15_FailedFetchChangesNothing ==
    \A en \in Entries :
        en.seen = "fetch_error" =>
            /\ en.note = "none" /\ en.kept
            /\ last = "tick" =>
                  \A i \in DOMAIN tasks :
                      Pending(tasks[i]) =>
                          ~(tasks[i].Time <= now /\ now < tasks[i].Time + 2)

\* The line status fetch of a line check fails while a status is stored; the
\* stored status stays and the tasks due with the check are executed.
C15_Witness ==
    /\ last = "tick" /\ lastStatus # ""
    /\ \E k \in DOMAIN log :
          /\ log[k].op = "TubeCheckStatus" /\ log[k].seen = "fetch_error"
          /\ log[k].pair = <<lastStatus, lastStatusReason>>
          /\ \E j \in DOMAIN log : j # k /\ log[j].seen # "fetch_error"

\* C16: of the evaluations that run at the same time for one entity (one
\* service at one delay bucket, one service's cancellation, one line status
\* found new) at most one decides to notify; the callers are never inside one
\* monitor's locked region together, so none reads the line status between
\* the two writes of another.
C16_OneDecisionPerEntity ==
    /\ \A k \in DOMAIN decided : decided[k] <= 1
    /\ \A p, q \in Callers :
          p # q /\ MutexOf(proc[p].op) = MutexOf(proc[q].op) =>
              ~(InSection(proc[p]) /\ InSection(proc[q]))
    /\ \A p, q \in Callers :
          proc[p].pc = "read" /\ proc[p].op = "CheckStatus" => proc[q].pc # "write2"

\* Both callers are in a call for the same entity, one has decided to notify
\* and left the locked region, the other has read and decided not to.
C16_Witness ==
    \E p, q \in Callers :
        /\ p # q
        /\ ConcItem(proc[p]) = ConcItem(proc[q])
        /\ proc[p].pc = "send" /\ proc[p].notify
        /\ proc[q].pc = "write" /\ ~proc[q].notify
        /\ decided[ConcItem(proc[p])] = 1

\* C17: once the loop runs and the run context is cancelled or Stop has been
\* called, the loop exits in the end; Stop has returned only if the loop has
\* exited; and once Stop has returned no task is executed and nothing the
\* scheduler or the monitors hold changes.
C17_StopIsGraceful ==
    /\ (phase = "running" /\ (ctxDone \/ stopCh = "closed")) ~> (phase = "exited")
    /\ [](stopReturned => phase = "exited")
    /\ [][stopReturned =>
            /\ tasks' = tasks /\ runs' = runs /\ log' = log
            /\ monVars' = monVars]_vars

\* A tick has executed a task, the context was cancelled and Stop called,
\* the loop has exited and Stop has returned.
C17_Witness ==
    /\ stopReturned /\ ctxDone /\ phase = "exited"
    /\ log # <<>>
    /\ \E i \in DOMAIN runs : runs[i] > 0

\* The list tk is a list built for the day of clock reading `clock`, with its
\* arrival checks possibly moved on by whole 5-minute steps.
BuiltForDayOf(tk, clock) ==
    \E a \in SetupAnswers(cfg) :
        LET fresh == setupDailyTasks(cfg, clock, a.search, a.detail)
        IN  /\ Len(tk) = Len(fresh)
            /\ \A i \in DOMAIN tk :
                  /\ tk[i].Type = fresh[i].Type
                  /\ IF IsArrivalCheck(tk[i].Type)
                     THEN /\ tk[i].Time >= fresh[i].Time
                          /\ (tk[i].Time - fresh[i].Time) % 5 = 0
                     ELSE tk[i].Time = fresh[i].Time

\* C18: the list the scheduler holds is always the list of the current day,
\* so from the tick that finds the day changed on no task of the day before
\* is left to execute (the arrival check of the day before, still recurring,
\* included); on that tick the first check made finds both monitors' memory
\* empty and every check made is one of a task of the new list, at its time.
C18_RolloverComesFirst ==
    phase = "running" =>
        /\ BuiltForDayOf(tasks, now)
        /\ dayChanged =>
              /\ log # <<>> =>
                    /\ log[1].stored = 0 /\ ~log[1].latch
                    /\ log[1].pair = <<"", "">>
              /\ \A en \in Entries :
                    /\ en.task \in DOMAIN tasks
                    /\ en.type = tasks[en.task].Type
                    /\ en.at >= DayStart(now)

\* A tick finds the day changed while a delay had been notified the day
\* before and the evening arrival check of the day before was pending; its
\* first check sees a delayed service, and a line check follows.
C18_Witness ==
    /\ dayChanged /\ yesterday.delays # {}
    /\ log # <<>> /\ log[1].seen = "delayed" /\ log[1].note = "TrainDelay"
    /\ \E en \in Entries : en.op = "TubeCheckStatus"
    /\ \A i \in DOMAIN tasks : tasks[i].Time # DayStart(now) + 63

\* The tasks of one type in the list.
TasksOf(type) == {i \in DOMAIN tasks : tasks[i].Type = type}

TimesOf(type) == {tasks[i].Time : i \in TasksOf(type)}

\* The journey is active on the weekday of clock reading `clock`.
ActiveOn(t, clock) == t.Days = {} \/ Weekday(clock) \in t.Days

\* The tasks of a journey active today, departing at minute dep of the clock.
JourneyBuilt(dep, delayCheck, statusUpdate, arrivalCheck) ==
    /\ Cardinality(TasksOf(delayCheck)) = 4
    /\ TimesOf(delayCheck) = {dep - 60, dep - 45, dep - 30, dep - 15}
    /\ Cardinality(TasksOf(statusUpdate)) = 2
    /\ TimesOf(statusUpdate) = {dep - 60, dep - 30}
    /\ \A i \in TasksOf(delayCheck) \cup TasksOf(statusUpdate) : ~tasks[i].Repeating
    /\ Cardinality(TasksOf(arrivalCheck)) = 1
    /\ \A i \in TasksOf(arrivalCheck) :
          /\ tasks[i].Time >= dep + 70 /\ (tasks[i].Time - dep - 70) % 5 = 0
          /\ runs[i] = 0 =>
                tasks[i].Time = dep + 70 /\ tasks[i].Repeating /\ ~tasks[i].Executed

C20_IdleDay ==
    phase = "running" =>
        IF ~ActiveOn(cfg.MorningTrain, now) /\ ~ActiveOn(cfg.EveningTrain, now)
        THEN tasks = <<>> /\ log = <<>> /\ runs = <<>>
        ELSE tasks # <<>> /\ currentDay = Day(now)

\* A tick on a day on which neither journey is active, the journeys being
\* active on another weekday.
C20_Witness ==
    /\ phase = "running" /\ last = "tick" /\ ~dayChanged
    /\ cfg.MorningTrain.Days # {} /\ cfg.EveningTrain.Days # {}
    /\ ~ActiveOn(cfg.MorningTrain, now) /\ ~ActiveOn(cfg.EveningTrain, now)
    /\ tasks = <<>>

\* C21: an execution of an arrival check that does not report the arrival
\* (a failed fetch and a search without the service included) leaves the task
\* 5 minutes after the time it was executed for, recurring and not executed;
\* between two rebuilds of the list the time of a task changes only by such
\* an execution.
C21_ArrivalCheckMovesOn ==
    /\ [](\A en \in Entries :
            IsArrivalCheck(en.type) /\ en.seen # "arrived" =>
                /\ tasks[en.task].Time = en.at + 5
                /\ tasks[en.task].Repeating /\ ~tasks[en.task].Executed)
    /\ [][phase = "running" /\ currentDay' = currentDay =>
            \A i \in DOMAIN tasks :
                tasks'[i].Time # tasks[i].Time =>
                    \E en \in Entries' :
                        /\ en.task = i /\ en.at = tasks[i].Time
                        /\ IsArrivalCheck(en.type) /\ en.seen # "arrived"]_vars

\* An arrival check already moved on once is executed again, the search
\* returns no service, and the task moves on another 5 minutes.
C21_Witness ==
    \E en \in Entries :
        /\ IsArrivalCheck(en.type) /\ en.seen = "no_service"
        /\ runs[en.task] = 2
        /\ tasks[en.task].Time = en.at + 5

\* C22: a status update neither reads nor writes the delay marks: whatever
\* the source answers, its outcome is the one it has with no mark stored, and
\* it leaves every mark as it was; so a gated check still notifies exactly
\* when its bucket is above the bucket of the last gated notification.
C22_StatusUpdateBypassesMarks ==
    /\ [](\A s \in ApiSearches, d \in BOOLEAN :
            LET held == TrainCheckStatus(CurrentMon, s, ApiDeparture, now, d)
                bare == TrainCheckStatus([CurrentMon EXCEPT !.notifiedDelays = EmptyMap],
                                         s, ApiDeparture, now, d)
            IN  /\ held.e = bare.e
                /\ held.mon.notifiedDelays = notifiedDelays)
    /\ [](\A en \in Entries :
            GatedDelaySeen(en) =>
                (en.note = "TrainDelay") = (Bucket(en.delay) > en.wasMark))
    /\ [][last' = "CheckStatus" => notifiedDelays' = notifiedDelays]_vars

\* A status update notifies a delay two buckets above the mark of 5 stored for
\* the service, and the mark is still 5.
C22_Witness ==
    \E en \in Entries :
        /\ en.op = "CheckStatus" /\ en.note = "TrainDelay"
        /\ en.stored = 5 /\ Bucket(en.delay) = 15
        /\ MapGet(notifiedDelays, en.uid, 0) = 5

\* Answers of the journey source to the expected-arrival lookup for journey
\* t, each with the minute of the day at which the service is expected (arr,
\* empty when the answers give none): the search fails, returns nothing or
\* another service; the detail fails, lacks the destination or gives it no
\* arrival; the destination has a booked arrival, or a realtime one as well.
LookupCases(t) ==
    LET dep == timeParse1504(t.Departure)
        match == Service(1, t.Departure, <<>>, "CALL", "", "")
        origin == Location(t.From, TRUE, <<>>, <<>>)
        stops(rt, bk) ==
            [err |-> FALSE, Locations |-> <<origin, Location(t.To, FALSE, rt, bk)>>]
        booked == stops(<<>>, HHMM(dep + 10))
        late == stops(HHMM(dep + 14), HHMM(dep + 10))
        case(sr, dt, arr) == [search |-> sr, detail |-> dt, arr |-> arr]
    IN  {case(SearchError, booked, {}),
         case(Found(<<>>), booked, {}),
         case(Found(<<OtherService(dep)>>), booked, {}),
         case(Found(<<match>>), DetailError, {}),
         case(Found(<<match>>), [err |-> FALSE, Locations |-> <<origin>>], {}),
         case(Found(<<match>>), stops(<<>>, <<>>), {}),
         case(Found(<<match>>), booked, {dep + 10}),
         case(Found(<<match>>), late, {dep + 14}),
         case(Found(<<OtherService(dep), match>>), late, {dep + 14})}

IsSummary(task) == task.Type = "NorthernLineSummary"

\* C23: whatever the expected-arrival lookup returns while the list is
\* built, the tasks other than the line summary are the same 27 of both
\* journeys; the list has no summary task when the lookup fails and exactly
\* one, 15 minutes before the expected arrival, when it succeeds.  The list
\* the scheduler holds has at most one summary task and the 27 others.
C23_SummaryAloneDependsOnLookup ==
    phase = "running" =>
        /\ \A a \in LookupCases(cfg.MorningTrain) :
              LET built == setupDailyTasks(cfg, now, a.search, a.detail)
                  others == SelectSeq(built, LAMBDA t : ~IsSummary(t))
                  summaries == SelectSeq(built, IsSummary)
              IN  /\ others = setupDailyTasks(cfg, now, SearchError, DetailError)
                  /\ Len(others) = 27
                  /\ IF a.arr = {} THEN summaries = <<>>
                     ELSE /\ Len(summaries) = 1
                          /\ \A arr \in a.arr :
                                summaries[1] = Task("NorthernLineSummary",
                                                    DayStart(now) + arr - 15, FALSE)
        /\ Cardinality(TasksOf("NorthernLineSummary")) <= 1
        /\ Len(tasks) - Cardinality(TasksOf("NorthernLineSummary")) = 27
        /\ JourneyBuilt(DayStart(now) + timeParse1504(cfg.MorningTrain.Departure),
                        "MorningDelayCheck", "MorningStatusUpdate", "MorningArrivalCheck")
        /\ JourneyBuilt(DayStart(now) + timeParse1504(cfg.EveningTrain.Departure),
                        "EveningDelayCheck", "EveningStatusUpdate", "EveningArrivalCheck")

\* The lookup failed when the list was built: the clock is past the time the
\* summary would have had, the list has no summary task and the line checks
\* and journey checks have run.
C23_Witness ==
    /\ phase = "running" /\ last = "tick"
    /\ TasksOf("NorthernLineSummary") = {}
    /\ Len(tasks) = 27
    /\ now > DayStart(now) + timeParse1504(cfg.MorningTrain.Departure) - 5
    /\ \E en \in Entries : en.op = "TubeCheckStatus"

\* C24: after a line check that obtained a status, the stored pair is the
\* (description, reason) it observed, whether it sent an alert or not and
\* whether the alert was delivered or not.
C24_ObservationIsStored ==
    \A k \in DOMAIN log :
        LineObserved(log[k]) /\ (\A j \in DOMAIN log : j > k => ~LineObserved(log[j])) =>
            <<lastStatus, lastStatusReason>> = <<log[k].line.desc, log[k].line.reason>>

\* A line check observes a pair other than the stored one, its alert is not
\* delivered, and the observed pair is stored.
C24_Witness ==
    \E en \in Entries :
        /\ LineObserved(en) /\ en.note = "TubeDisruption" /\ ~en.ok
        /\ en.pair # <<en.line.desc, en.line.reason>> /\ en.pair[1] # ""
        /\ <<lastStatus, lastStatusReason>> = <<en.line.desc, en.line.reason>>

\* The line check treated its observation as the first since the reset.
TreatedAsFirst(en) == isFirstCheck([lastStatus |-> en.pair[1]])

\* C25: of a line observation that differs from the stored pair, the first
\* since the reset sends a disruption alert exactly when its severity is below
\* good service and is not service closed, and any later one always sends a
\* disruption alert, also on a change back to good service.
\* It holds while every status carries a description (SpecTube).  After a
\* status stored without one the next observation is taken for the first, and
\* a change to good service or to service closed sends nothing (SpecTubeRaw).
C25_ChangedLineRule ==
    \A en \in Entries :
        LineObserved(en) /\ en.pair # <<en.line.desc, en.line.reason>> =>
            IF en.wasLine = NoLine
            THEN (en.note = "TubeDisruption") =
                    (en.line.sev < StatusGoodService /\ en.line.sev # StatusServiceClosed)
            ELSE en.note = "TubeDisruption"

\* C26: once a line check has stored an observation, no later line check
\* before the next reset is treated as the first observation since the reset.
\* The test of tube.go 55 reads the stored description alone, so a status
\* stored without a description is not told from nothing stored (SpecTubeRaw).
C26_FirstIsOnlyFirst ==
    \A en \in Entries :
        LineObserved(en) /\ en.wasLine # NoLine => ~TreatedAsFirst(en)

\* The first service of the list whose booked departure satisfies fits, 0
\* when there is none.
FirstThat(services, fits(_)) ==
    LET hits == {i \in 1..Len(services) : fits(services[i].GbttBookedDeparture)}
    IN  IF hits = {} THEN 0 ELSE CHOOSE i \in hits : \A j \in hits : i <= j

\* The text begins with the characters of start, in order.
BeginsWith(text, start) ==
    /\ Len(text) >= Len(start)
    /\ \A k \in 1..Len(start) : text[k] = start[k]

\* The three checks on the search s in the present state of the monitor.
ChecksOn(s) ==
    {CheckDelay(CurrentMon, s, ApiDeparture, now, d) : d \in BOOLEAN}
    \cup {TrainCheckStatus(CurrentMon, s, ApiDeparture, now, d) : d \in BOOLEAN}
    \cup {CheckArrival(CurrentMon, s, dt, "WAT", ApiDeparture, now, d) :
            dt \in ApiDetails, d \in BOOLEAN}

\* A check made without a matching service: nothing sent, nothing changed,
\* no error.
NoMatchIsQuiet ==
    /\ \A s \in MatchSearches \ {SearchError} :
          findMatchingService(s.Services, ApiDeparture) = 0 =>
              \A res \in ChecksOn(s) :
                  /\ res.e.seen = "no_service" /\ res.e.note = "none" /\ ~res.e.err
                  /\ res.mon = CurrentMon /\ ~res.arrived
    /\ \A en \in Entries :
          en.seen = "no_service" => en.note = "none" /\ en.kept /\ ~en.err

\* C27 as stated: the match is the first service whose booked departure
\* equals the target or is a prefix of it, so a check that matched a service
\* matched one booked at the target or at a shorter text; without a match a
\* check sends nothing, changes nothing and reports no error.
C27_MatchIsPrefixOfTarget ==
    /\ \A s \in MatchSearches :
          findMatchingService(s.Services, ApiDeparture) =
              FirstThat(s.Services,
                        LAMBDA b : b = ApiDeparture \/ BeginsWith(ApiDeparture, b))
    /\ \A en \in Entries :
          en.seen \in {"delayed", "on_time", "cancelled", "arrived", "not_arrived"}
              => en.uid # 2
    /\ NoMatchIsQuiet

\* C27, amended: the match is the first service whose booked departure
\* equals the target or begins with it (the target is the prefix); without a
\* match a check sends nothing, changes nothing and reports no error.
C27_MatchBeginsWithTarget ==
    /\ \A s \in MatchSearches :
          findMatchingService(s.Services, ApiDeparture) =
              FirstThat(s.Services, LAMBDA b : BeginsWith(b, ApiDeparture))
    /\ \A en \in Entries :
          en.seen \in {"delayed", "on_time", "cancelled", "arrived", "not_arrived"}
              => en.uid \in {1, 2}
    /\ NoMatchIsQuiet

\* A gated check matches the service booked at "072000" and notifies its
\* delay.
C27_Witness ==
    \E en \in Entries :
        /\ en.op = "CheckDelay" /\ en.uid = 2
        /\ en.seen = "delayed" /\ en.note = "TrainDelay"

\* Times of day, in minutes after midnight, around the hour, the day's ends
\* and the 23:30.
ClockTimes == {0, 1, 59, 60, 440, 446, 1410, 1430, 1439}

\* The time of day written with a colon, as "23:30".
WithColon(mins) ==
    LET s == HHMM(mins) IN <<s[1], s[2], Colon, s[3], s[4]>>

\* C28: the delay is the realtime time of day minus the booked one when that
\* is not negative and 0 when it is negative, as for a realtime departure
\* after midnight of a service booked before it; it is never negative.
C28_DelayFlooredAtZero ==
    /\ \A a \in ClockTimes, b \in ClockTimes :
          \A sched \in {HHMM(a), WithColon(a)}, real \in {HHMM(b), WithColon(b)} :
              /\ calculateDelay(sched, real) = (IF b - a >= 0 THEN b - a ELSE 0)
              /\ calculateDelay(sched, real) >= 0
    /\ \A en \in Entries :
          /\ en.delay >= 0
          /\ en.uid = 1 /\ en.seen \in {"delayed", "on_time"}
                => /\ en.delay \in LateOffsets[1]
                   /\ (en.seen = "delayed") = (en.delay > 0)
          /\ en.uid = 2 => en.delay = 0 /\ en.seen = "on_time"

\* The 23:30 leaves after midnight and the status update reports it on time,
\* with marks stored for the service that left late before midnight.
C28_Witness ==
    /\ \E en \in Entries :
          /\ en.uid = 2 /\ en.op = "CheckStatus"
          /\ en.note = "TrainOnTime" /\ en.delay = 0
    /\ MapGet(notifiedDelays, 1, 0) = 20

\* C29: a gated check of a service with no gated delay notification since
\* the reset finds no mark stored for it, which reads as 0; a gated check
\* that observes a delay above 0 and below 5 minutes sends nothing and leaves
\* every mark as it was, whatever is stored; so the first gated notification
\* of a service carries a delay of at least 5 minutes.
C29_SmallDelayIsSilent ==
    /\ [](\A en \in Entries :
            /\ en.op = "CheckDelay" /\ en.uid \in UIDs /\ en.wasMark = 0
                  => en.stored = 0
            /\ GatedDelaySeen(en) /\ en.delay < 5
                  => en.note = "none" /\ en.kept
            /\ GatedDelaySent(en) /\ en.wasMark = 0 => en.delay >= 5)
    /\ [][\A en \in Entries' :
            GatedDelaySeen(en) /\ en.delay < 5 =>
                notifiedDelays' = notifiedDelays]_vars

\* A gated check observes a delay of 3 minutes for a service never notified
\* since the reset and sends nothing; no mark is stored for the service.
C29_Witness ==
    \E en \in Entries :
        /\ GatedDelaySeen(en) /\ en.delay = 3 /\ en.wasMark = 0
        /\ en.note = "none"
        /\ en.uid \notin DOMAIN notifiedDelays

\* The clock reading at which the run that has reached reading t was started.
StartOf(t) == CHOOSE s \in StartTimes : s <= t /\ t <= s + Horizon

\* C30: with a tick every minute and no rollover since the start, a task
\* created non-recurring whose time is at or after the first tick is executed
\* exactly once, by the tick at its time: not before that tick, by that tick,
\* and by no tick after it.
C30_MinuteTicksRunEachTaskOnce ==
    phase = "running" /\ Day(now) = Day(StartOf(now)) =>
        \A i \in DOMAIN tasks :
            ~IsArrivalCheck(tasks[i].Type) /\ tasks[i].Time >= StartOf(now) + 1 =>
                /\ tasks[i].Time > now => runs[i] = 0 /\ ~tasks[i].Executed
                /\ tasks[i].Time = now =>
                      /\ runs[i] = 1 /\ tasks[i].Executed
                      /\ \E en \in Entries : en.task = i /\ en.at = now
                /\ tasks[i].Time < now =>
                      /\ runs[i] = 1 /\ tasks[i].Executed
                      /\ \A en \in Entries : en.task # i

\* The tick a minute after the one that executed a task leaves it alone,
\* though the task's window is still open.
C30_Witness ==
    /\ phase = "running" /\ last = "tick" /\ Day(now) = Day(StartOf(now))
    /\ \E i \in DOMAIN tasks :
          /\ ~IsArrivalCheck(tasks[i].Type)
          /\ tasks[i].Time >= StartOf(now) + 1
          /\ now = tasks[i].Time + 1
          /\ isWithinWindow(tasks[i].Time, now, Window)
          /\ runs[i] = 1
          /\ \A en \in Entries : en.task # i

\* C31: every task stands, as it was built, on the calendar day of the
\* build: a task not yet executed since the list was built has its time
\* between the first and the last minute of the day the clock reads, so its
\* window can open before the next rollover rebuilds the list.
C31_TasksOnTheirDay ==
    phase = "running" =>
        \A i \in DOMAIN tasks :
            runs[i] = 0 => DayStart(tasks[i].Time) = DayStart(now)

\* The rollover to day 1 has built the 00:30's first delay check at 23:30 of
\* day 0, before the rollover itself, and the 23:53's arrival check at 01:03
\* of day 2, after the next one.
C31_Witness ==
    /\ phase = "running" /\ dayChanged /\ DayStart(now) = 24 * 60
    /\ \E i \in DOMAIN tasks :
          /\ tasks[i].Type = "MorningDelayCheck"
          /\ tasks[i].Time = DayStart(now) - 30 /\ runs[i] = 0
    /\ \E i \in DOMAIN tasks :
          /\ tasks[i].Type = "EveningArrivalCheck"
          /\ tasks[i].Time = DayStart(now) + 24 * 60 + 63 /\ runs[i] = 0

====
